---- MODULE Spec2Model ----
(***************************************************************************)
(* Meta-workflow compiler (wfl_utils/wfl_parser.py) and the launcher of   *)
(* pending workflow runs (magma_ff/run_metawfr.py), and the creation of a  *)
(* MetaWorkflowRun from a SampleProcessing (magma_ff/create_metawfr.py).   *)
(***************************************************************************)
EXTENDS Integers, Sequences, FiniteSets, TLC

(***************************************************************************)
(* Bounds of the model.                                                    *)
(***************************************************************************)
NSteps == 3
MaxEnd == 2
MaxCalls == 1
MaxFiles == 2
MaxGather == 2
NShards == 3
NPasses == 2
MaxCount == 2
MaxSamples == 2
MaxUuids == 2
MaxArgs == 2
MaxLeaves == 4
MaxStepArgs == 3
MaxLater == 2
NJobs == 2
MaxWfrCalls == 3
MaxNames == 3
MaxFamily == 3
NCreators == 2
MaxLinked == 2
MaxQms == 3
MaxQcValues == 2
MaxQcKeys == 2
MaxQcValue == 2
MaxIds == 11
MaxIdValue == 2

\* _shards knows three dimensions (1st, 2nd, "else: 3rd").
MaxDim == 3

Names == 1 .. NSteps
\* a step name that no workflow of the meta-workflow carries
MissingName == NSteps + 1

VARIABLES
    steps,        \* Wfl.steps: name -> Step (calculated attributes)
    pc,           \* position of the current call on the Wfl object
    op,           \* the method called: "order" (_order_wfl_run) or "write" (write_wfl_run)
    calls,        \* number of calls made on the Wfl object so far
    end_steps,    \* argument end_steps of the current call
    input,        \* argument input of write_wfl_run
    bidx,         \* _build_wfl_run: index of the current end_step in end_steps
    bqueue,       \* _build_wfl_run: queue
    bsteps,       \* _build_wfl_run: steps_ (entry points)
    oqueue,       \* _order_wfl_run: queue
    osteps,       \* _order_wfl_run: steps_ (the order being built), then its result
    dimensions,   \* write_wfl_run: dimensions
    scatter,      \* write_wfl_run: scatter {name: dimension}, 0 for an absent key
    widx,         \* write_wfl_run: number of steps of steps_ already written
    workflow_runs,\* write_wfl_run: run_json['workflow_runs']
    sdim,         \* write_wfl_run: scatter_dimension computed for each step so far
    err,          \* the exception that ended the call, "" if none
    run_deps,     \* the Run: shard -> the shards its dependencies list names
    store,        \* the MetaWorkflowRun document in the metadata store
    backend,      \* the jobs the execution backend has accepted, in order
    patches,      \* the PATCHes the metadata store has applied, in order
    ppc,          \* run_metawfr: position of each pass
    meta_workflow_run, \* run_metawfr: the document each pass has fetched
    run_obj,      \* run_metawfr: the MetaWorkflowRun object of each pass (shard -> status)
    in_gen,       \* run_metawfr: the shards the input generator of each pass has left
    patch_dict,   \* run_metawfr: the patch_dict the generator yielded last
    count,        \* run_metawfr: count
    maxcount,     \* run_metawfr: argument maxcount, 0 for None
    valid_status, \* run_metawfr: argument valid_status, {} for None
    failed_at,    \* the shard whose run_workflow call raised in each pass, 0 if none
    file_value,   \* format_file_input_value: argument file_value {sample index: [uuid]}
    input_arg_dimensions, \* format_file_input_value: argument input_dimensions
    formatted,    \* format_file_input_value: what the call returned or raised
    cpc,          \* MetaWorkflowRunFromSampleProcessing: position of the creation
    sample_processing, \* __init__: whether the embed request found the SampleProcessing
    meta_workflow,\* __init__: the MetaWorkflow found (its input declarations), or none
    input_properties, \* the input adapter: attribute name -> value, or no attribute
    meta_workflow_run_input, \* __init__: what create_input returned or raised
    cerr,         \* the MetaWorkflowRunCreationError raised, "" if none
    posted,       \* the documents POSTed to meta-workflow-runs, in order
    patched,      \* the PATCH bodies sent to the SampleProcessing, in order
    nested,       \* _input_dimensions: argument input of a call made on its own
    shard_dimension, \* _shards: argument dimension, 0 before the call
    shard_list,   \* _shards: the list returned
    step_arguments, \* Step.__init__: step_json['arguments']
    step_attributes, \* Step.__init__: the calculated attributes, once _attributes ran
    ids, \* make_embed_request: argument ids, as a list
    single_item, \* make_embed_request: argument single_item
    id_chunks, \* make_embed_request: id_chunks
    embed_requests, \* the ids of the POSTs to /embed, in order
    embed_result, \* make_embed_request: result, then what the call returned or raised
    embed_pc, \* make_embed_request: position of the call
    qm_items, \* the portal: the qc_values of the quality-metric items of the file, oldest first
    mode, \* merge_qc_items: argument mode
    file_qms, \* merge_qc_items: file_qms, the uuids of the items
    qm_uuid_to_keep, \* merge_qc_items: qm_uuid_to_keep, 0 before it is set
    qm_idx, \* merge_qc_items: number of items of file_qms already read
    qc_values_dict, \* merge_qc_items: qc_values_dict, in insertion order
    merge_patches, \* the PATCHes merge_qc_items has sent, in order
    merge_pc, \* merge_qc_items: position of the call
    linked_before, \* the meta_workflow_runs of the SampleProcessing before the objects are made
    sp_meta_workflow_runs, \* the portal: meta_workflow_runs of the SampleProcessing
    portal_runs, \* the portal: the uuids of the MetaWorkflowRuns POSTed
    existing_runs, \* self.existing_meta_workflow_runs of each object
    meta_workflow_run_uuid, \* self.meta_workflow_run_uuid of each object, 0 before __init__
    link_pc, \* position of each object: new, constructed, posted, patched, error
    samples, \* SampleProcessing: samples
    samples_pedigree, \* SampleProcessing: samples_pedigree
    expect_family_structure, \* InputPropertiesFromSampleProcessing: argument expect_family_structure
    sorted, \* self.sorted_samples and self.sorted_samples_pedigree, or the error raised
    portal_wfr, \* the portal: the WorkflowRun document of each job id, or none
    _metadata, \* FFWfrUtils._metadata: job id -> cached document, or none
    wfr_queries, \* the number of searches FFWfrUtils has sent to the portal
    wfr_call, \* the last call on the FFWfrUtils object and what it returned or raised
    wfr_calls \* the number of calls made on the FFWfrUtils object

wflvars == <<steps, pc, op, calls, end_steps, input, bidx, bqueue, bsteps, oqueue,
             osteps, dimensions, scatter, widx, workflow_runs, sdim, err>>

runvars == <<run_deps, store, backend, patches, ppc, meta_workflow_run, run_obj, in_gen,
             patch_dict, count, maxcount, valid_status, failed_at>>

fmtvars == <<file_value, input_arg_dimensions, formatted>>

crvars == <<cpc, sample_processing, meta_workflow, input_properties,
            meta_workflow_run_input, cerr, posted, patched>>

shardvars == <<nested, shard_dimension, shard_list>>

stepvars == <<step_arguments, step_attributes>>

embedvars == <<ids, single_item, id_chunks, embed_requests, embed_result, embed_pc>>

qmvars == <<qm_items, mode, file_qms, qm_uuid_to_keep, qm_idx, qc_values_dict, merge_patches, merge_pc>>

linkvars == <<linked_before, sp_meta_workflow_runs, portal_runs, existing_runs, meta_workflow_run_uuid, link_pc>>

familyvars == <<samples, samples_pedigree, expect_family_structure, sorted>>

wfrvars == <<portal_wfr, _metadata, wfr_queries, wfr_call, wfr_calls>>

utilvars == <<shardvars, stepvars, embedvars, qmvars, linkvars, familyvars, wfrvars>>

(***************************************************************************)
(* Helpers on sequences and sets.                                          *)
(***************************************************************************)
Range(s) == {s[i] : i \in 1 .. Len(s)}

\* every order in which Python may iterate the set S
Perms(S) == {p \in [1 .. Cardinality(S) -> S] : Range(p) = S}

\* sorted(S) for a set of names
RECURSIVE Sorted(_)
Sorted(S) ==
    IF S = {} THEN <<>>
    ELSE LET m == CHOOSE x \in S : \A y \in S : x <= y
         IN  <<m>> \o Sorted(S \ {m})

RECURSIVE MaxOf(_)
MaxOf(s) ==
    IF Len(s) = 1 THEN s[1]
    ELSE LET m == MaxOf(Tail(s)) IN IF s[1] >= m THEN s[1] ELSE m

RECURSIVE Flatten(_)
Flatten(ss) == IF ss = <<>> THEN <<>> ELSE Head(ss) \o Flatten(Tail(ss))

Prefix(s, n) == SubSeq(s, 1, IF n < Len(s) THEN n ELSE Len(s))

(***************************************************************************)
(* Wfl.Step: the calculated attributes of a step.                          *)
(***************************************************************************)
Step(is_scatter, gather_from, dependencies) ==
    [is_scatter |-> is_scatter, gather_from |-> gather_from,
     dependencies |-> dependencies, nodes |-> {}]

(***************************************************************************)
(* _build_wfl_run                                                          *)
(***************************************************************************)
\* for end_step in end_steps: queue = [self.steps[end_step]]
BuildStart ==
    /\ pc = "build"
    /\ bqueue = <<>>
    /\ bidx < Len(end_steps)
    /\ bidx' = bidx + 1
    /\ IF end_steps[bidx + 1] \in Names
       THEN /\ bqueue' = <<end_steps[bidx + 1]>>
            /\ UNCHANGED <<pc, err>>
       ELSE /\ pc' = "error"
            /\ err' = "KeyError"
            /\ UNCHANGED bqueue
    /\ UNCHANGED <<steps, op, calls, end_steps, input, bsteps, oqueue, osteps,
                   dimensions, scatter, widx, workflow_runs, sdim>>

\* the dependencies linked before the first missing one, in iteration order
Linked(order) ==
    LET bad == {i \in 1 .. Len(order) : order[i] \notin Names}
        stop == IF bad = {} THEN Len(order) + 1
                ELSE CHOOSE i \in bad : \A j \in bad : i <= j
    IN  SubSeq(order, 1, stop - 1)

\* one iteration of "while queue"
BuildStep ==
    /\ pc = "build"
    /\ bqueue # <<>>
    /\ LET step_obj == Head(bqueue)
           deps == steps[step_obj].dependencies
       IN  IF deps # {}
           THEN \E order \in Perms(deps) :
                    LET linked == Linked(order)
                    IN  /\ steps' = [n \in Names |->
                                       IF n \in Range(linked)
                                       THEN [steps[n] EXCEPT !.nodes = @ \cup {step_obj}]
                                       ELSE steps[n]]
                        /\ IF Len(linked) = Len(order)
                           THEN /\ bqueue' = Tail(bqueue) \o linked
                                /\ UNCHANGED <<pc, err>>
                           ELSE /\ bqueue' = Tail(bqueue) \o linked
                                /\ pc' = "error"
                                /\ err' = "ValueError"
                        /\ UNCHANGED bsteps
           ELSE /\ bsteps' = bsteps \cup {step_obj}
                /\ bqueue' = Tail(bqueue)
                /\ UNCHANGED <<steps, pc, err>>
    /\ UNCHANGED <<op, calls, end_steps, input, bidx, oqueue, osteps,
                   dimensions, scatter, widx, workflow_runs, sdim>>

\* return steps_  and  queue = list(self._build_wfl_run(end_steps))
BuildReturn ==
    /\ pc = "build"
    /\ bqueue = <<>>
    /\ bidx = Len(end_steps)
    /\ \E q \in Perms(bsteps) : oqueue' = q
    /\ osteps' = <<>>
    /\ pc' = "order"
    /\ UNCHANGED <<steps, op, calls, end_steps, input, bidx, bqueue, bsteps,
                   dimensions, scatter, widx, workflow_runs, sdim, err>>

(***************************************************************************)
(* _order_wfl_run                                                          *)
(***************************************************************************)
\* for node in step_obj._nodes: if node not in steps_ and node not in queue
NextNodes(step_obj, queue, steps_, order) ==
    SelectSeq(order, LAMBDA n : n \notin Range(steps_) /\ n \notin Range(queue))

\* is_dependencies, were one dependency in steps_ enough
IsDependenciesAny(step_obj, steps_) ==
    \/ steps[step_obj].dependencies = {}
    \/ \E d \in steps[step_obj].dependencies : d \in Range(steps_)

\* is_dependencies after the loop over step_obj.dependencies
IsDependencies(step_obj, steps_) ==
    \A d \in steps[step_obj].dependencies : d \in Range(steps_)

\* one iteration of "while queue"
OrderStep ==
    /\ pc = "order"
    /\ oqueue # <<>>
    /\ LET step_obj == Head(oqueue)
           queue == Tail(oqueue)
       IN  \E order \in Perms(steps[step_obj].nodes) :
               LET q1 == queue \o NextNodes(step_obj, queue, osteps, order)
               IN  IF IsDependencies(step_obj, osteps)
                   THEN /\ osteps' = Append(osteps, step_obj)
                        /\ oqueue' = q1
                   ELSE /\ oqueue' = Append(q1, step_obj)
                        /\ UNCHANGED osteps
    /\ UNCHANGED <<steps, pc, op, calls, end_steps, input, bidx, bqueue, bsteps,
                   dimensions, scatter, widx, workflow_runs, sdim, err>>

\* return steps_
OrderReturn ==
    /\ pc = "order"
    /\ oqueue = <<>>
    /\ pc' = IF op = "order" THEN "done" ELSE "write"
    /\ UNCHANGED <<steps, op, calls, end_steps, input, bidx, bqueue, bsteps, oqueue,
                   osteps, dimensions, scatter, widx, workflow_runs, sdim, err>>

(***************************************************************************)
(* Input values: a file handle (Leaf) or a list of values.                 *)
(***************************************************************************)
Leaf == [list |-> FALSE, items |-> <<>>]
Lst(s) == [list |-> TRUE, items |-> s]

RECURSIVE Size(_)
Size(v) ==
    IF ~v.list THEN 1
    ELSE LET RECURSIVE Sum(_)
             Sum(s) == IF s = <<>> THEN 0 ELSE Size(Head(s)) + Sum(Tail(s))
         IN  Sum(v.items)

SeqsUpTo(S, n) == UNION {[1 .. k -> S] : k \in 1 .. n}

\* the non-empty lists over S that hold at most MaxFiles file handles
ListsOver(S) == {Lst(s) : s \in {q \in SeqsUpTo(S, MaxFiles) : Size(Lst(q)) <= MaxFiles}}

\* the nested inputs of depth 1, 2 and 3
Inputs1 == ListsOver({Leaf})
Inputs2 == ListsOver(Inputs1)
Inputs3 == ListsOver(Inputs2)
\* an input nested one level deeper than the dimensions _shards knows
Inputs4 == ListsOver(Inputs3)
Inputs == Inputs1 \cup Inputs2 \cup Inputs3 \cup Inputs4

(***************************************************************************)
(* _input_dimensions: {1: [n], 2: [m0, ...], 3: [[...], ...]}; a dimension *)
(* that is not a key of the dictionary is the empty list here.             *)
(***************************************************************************)
Lens(s) == [k \in 1 .. Len(s) |-> Len(s[k].items)]

_input_dimensions(in) ==
    LET its == in.items
        two == its[1].list
        withSub == SelectSeq(its, LAMBDA i : i.items[1].list)
    IN  [d1 |-> <<Len(its)>>,
         d2 |-> IF two THEN Lens(its) ELSE <<>>,
         d3 |-> IF two THEN [k \in 1 .. Len(withSub) |-> Lens(withSub[k].items)]
                ELSE <<>>]

\* dimension in input_dimensions (otherwise input_dimensions[dimension] is a KeyError)
HasDimension(input_dimensions, dimension) ==
    \/ dimension = 1
    \/ dimension = 2 /\ input_dimensions.d2 # <<>>
    \/ dimension = 3 /\ input_dimensions.d3 # <<>>

(***************************************************************************)
(* _shards: the coordinates at depth dimension, str(i) written i.          *)
(***************************************************************************)
Shards1(d1) == [i \in 1 .. d1[1] |-> <<i - 1>>]

Shards2(d2) ==
    Flatten([i \in 1 .. Len(d2) |-> [ii \in 1 .. d2[i] |-> <<i - 1, ii - 1>>]])

\* the 3rd dimension, were every sublist of a sample taken as long as its first
Shards3Rectangular(d3) ==
    Flatten([i \in 1 .. Len(d3) |->
        Flatten([ii \in 1 .. Len(d3[i]) |->
            [iii \in 1 .. d3[i][1] |-> <<i - 1, ii - 1, iii - 1>>]])])

Shards3(d3) ==
    Flatten([i \in 1 .. Len(d3) |->
        Flatten([ii \in 1 .. Len(d3[i]) |->
            [iii \in 1 .. d3[i][ii] |-> <<i - 1, ii - 1, iii - 1>>]])])

_shards(input_dimensions, dimension) ==
    IF dimension = 1 THEN Shards1(input_dimensions.d1)
    ELSE IF dimension = 2 THEN Shards2(input_dimensions.d2)
    ELSE Shards3(input_dimensions.d3)

(***************************************************************************)
(* write_wfl_run                                                           *)
(***************************************************************************)
\* the loop "for dependency in step_obj.dependencies" of a step without is_scatter,
\* over the dependencies in iteration order; acc holds the loop's variables
RECURSIVE ScanDependencies(_, _, _, _)
ScanDependencies(order, gather_from, scatter_, acc) ==
    IF order = <<>> THEN acc
    ELSE LET dependency == Head(order)
         IN  IF scatter_[dependency] # 0
             THEN IF gather_from[dependency] = 0
                  THEN [acc EXCEPT !.scatter_dimension = scatter_[dependency],
                                   !.in_gather = FALSE]
                  ELSE ScanDependencies(Tail(order), gather_from, scatter_,
                           [acc EXCEPT !.scatter_dimension = scatter_[dependency],
                                       !.gather_dimensions =
                                           Append(@, scatter_[dependency]
                                                     - gather_from[dependency])])
             ELSE ScanDependencies(Tail(order), gather_from, scatter_, acc)

\* scatter_dimension, were in_gather not looked at
ScatterDimensionNoFlag(step_obj, scatter_, order) ==
    IF step_obj.is_scatter # 0 THEN step_obj.is_scatter
    ELSE LET r == ScanDependencies(order, step_obj.gather_from, scatter_,
                      [scatter_dimension |-> 0, in_gather |-> TRUE,
                       gather_dimensions |-> <<>>])
         IN  IF r.gather_dimensions # <<>>
             THEN MaxOf(r.gather_dimensions)
             ELSE r.scatter_dimension

\* scatter_dimension of step_obj ("Check scatter"), order being the iteration order
\* of step_obj.dependencies
ScatterDimension(step_obj, scatter_, order) ==
    IF step_obj.is_scatter # 0 THEN step_obj.is_scatter
    ELSE LET r == ScanDependencies(order, step_obj.gather_from, scatter_,
                      [scatter_dimension |-> 0, in_gather |-> TRUE,
                       gather_dimensions |-> <<>>])
         IN  IF r.in_gather /\ r.gather_dimensions # <<>>
             THEN MaxOf(r.gather_dimensions)
             ELSE r.scatter_dimension

\* scatter.setdefault(step_obj.name, scatter_dimension), where the code does it
RecordScatter(name, step_obj, scatter_, scatter_dimension) ==
    IF (step_obj.is_scatter # 0 \/ scatter_dimension > 0) /\ scatter_[name] = 0
    THEN [scatter_ EXCEPT ![name] = scatter_dimension]
    ELSE scatter_

\* the dependencies of shard s on one dependency, were every gather a full gather
ShardDependenciesAll(dependency, step_obj, s, scatter_dimension, scatter_, dims) ==
    IF step_obj.gather_from[dependency] # 0
    THEN LET shards_gather == _shards(dims, scatter_[dependency])
         IN  [k \in 1 .. Len(shards_gather) |-> <<dependency, shards_gather[k]>>]
    ELSE <<<<dependency, s>>>>

\* the dependencies of shard s on one dependency ("Check gather_from")
ShardDependencies(dependency, step_obj, s, scatter_dimension, scatter_, dims) ==
    IF step_obj.gather_from[dependency] # 0
    THEN LET shards_gather == _shards(dims, scatter_[dependency])
             gather_dimension == scatter_[dependency] - step_obj.gather_from[dependency]
             kept == SelectSeq(shards_gather, LAMBDA s_g :
                         \/ scatter_dimension = 0
                         \/ scatter_dimension > gather_dimension
                         \/ Prefix(s_g, scatter_dimension) = s)
         IN  [k \in 1 .. Len(kept) |-> <<dependency, kept[k]>>]
    ELSE <<<<dependency, s>>>>

\* one shard record of step name
RunStep(name, step_obj, s, scatter_dimension, scatter_, dims) ==
    LET deps == Sorted(step_obj.dependencies)
    IN  [name |-> name, workflow_run_uuid |-> "", output |-> "", status |-> "pending",
         shard |-> s,
         dependencies |-> Flatten([k \in 1 .. Len(deps) |->
             ShardDependencies(deps[k], step_obj, s, scatter_dimension, scatter_, dims)])]

\* a KeyError of one iteration of "for step_obj in steps_": _shards on a dimension
\* the input has not, or scatter[dependency] for a dependency that is gathered
\* from and not scattered
WriteKeyError(step_obj, scatter_dimension, scatter_, dims) ==
    \/ scatter_dimension # 0 /\ ~HasDimension(dims, scatter_dimension)
    \/ \E d \in step_obj.dependencies :
           step_obj.gather_from[d] # 0 /\ scatter_[d] = 0

\* one iteration, were the records of a step put before those of the earlier steps
WriteStepPrepending ==
    /\ pc = "write"
    /\ widx < Len(osteps)
    /\ LET name == osteps[widx + 1]
           step_obj == steps[name]
       IN  \E order \in Perms(step_obj.dependencies) :
               LET scatter_dimension == ScatterDimension(step_obj, scatter, order)
                   scatter_ == RecordScatter(name, step_obj, scatter, scatter_dimension)
                   shards == IF scatter_dimension # 0
                             THEN _shards(dimensions, scatter_dimension)
                             ELSE <<<<0>>>>
               IN  /\ sdim' = [sdim EXCEPT ![name] = scatter_dimension]
                   /\ scatter' = scatter_
                   /\ IF WriteKeyError(step_obj, scatter_dimension, scatter_, dimensions)
                      THEN /\ pc' = "error"
                           /\ err' = "KeyError"
                           /\ UNCHANGED <<widx, workflow_runs>>
                      ELSE /\ workflow_runs' =
                                  [k \in 1 .. Len(shards) |->
                                      RunStep(name, step_obj, shards[k], scatter_dimension,
                                              scatter_, dimensions)] \o workflow_runs
                           /\ widx' = widx + 1
                           /\ UNCHANGED <<pc, err>>
    /\ UNCHANGED <<steps, op, calls, end_steps, input, bidx, bqueue, bsteps, oqueue,
                   osteps, dimensions>>

\* one iteration of "for step_obj in steps_"
WriteStep ==
    /\ pc = "write"
    /\ widx < Len(osteps)
    /\ LET name == osteps[widx + 1]
           step_obj == steps[name]
       IN  \E order \in Perms(step_obj.dependencies) :
               LET scatter_dimension == ScatterDimension(step_obj, scatter, order)
                   scatter_ == RecordScatter(name, step_obj, scatter, scatter_dimension)
                   shards == IF scatter_dimension # 0
                             THEN _shards(dimensions, scatter_dimension)
                             ELSE <<<<0>>>>
               IN  /\ sdim' = [sdim EXCEPT ![name] = scatter_dimension]
                   /\ scatter' = scatter_
                   /\ IF WriteKeyError(step_obj, scatter_dimension, scatter_, dimensions)
                      THEN /\ pc' = "error"
                           /\ err' = "KeyError"
                           /\ UNCHANGED <<widx, workflow_runs>>
                      ELSE /\ workflow_runs' = workflow_runs \o
                                  [k \in 1 .. Len(shards) |->
                                      RunStep(name, step_obj, shards[k], scatter_dimension,
                                              scatter_, dimensions)]
                           /\ widx' = widx + 1
                           /\ UNCHANGED <<pc, err>>
    /\ UNCHANGED <<steps, op, calls, end_steps, input, bidx, bqueue, bsteps, oqueue,
                   osteps, dimensions>>

\* return run_json
WriteReturn ==
    /\ pc = "write"
    /\ widx = Len(osteps)
    /\ pc' = "done"
    /\ UNCHANGED <<steps, op, calls, end_steps, input, bidx, bqueue, bsteps, oqueue,
                   osteps, dimensions, scatter, widx, workflow_runs, sdim, err>>

(***************************************************************************)
(* The calls on a Wfl object.                                              *)
(***************************************************************************)
\* the end_steps lists tried: up to MaxEnd names of steps
EndSteps == SeqsUpTo(Names, MaxEnd)

NoScatter == [n \in Names |-> 0]

Enter(method, e, in) ==
    /\ pc \in {"idle", "done", "error"}
    /\ calls < MaxCalls
    /\ calls' = calls + 1
    /\ op' = method
    /\ end_steps' = e
    /\ input' = in
    /\ bidx' = 0
    /\ bqueue' = <<>>
    /\ bsteps' = {}
    /\ oqueue' = <<>>
    /\ osteps' = <<>>
    /\ scatter' = NoScatter
    /\ sdim' = NoScatter
    /\ widx' = 0
    /\ workflow_runs' = <<>>
    /\ err' = ""
    /\ UNCHANGED steps

\* wfl._order_wfl_run(end_steps)
CallOrder ==
    \E e \in EndSteps :
        /\ Enter("order", e, Lst(<<Leaf>>))
        /\ pc' = "build"
        /\ UNCHANGED dimensions

\* wfl._order_wfl_run(end_steps) once more on the same Wfl object, after an earlier
\* call returned or raised: the locals start afresh, self.steps is what it is
CallOrderLater ==
    \E e \in EndSteps :
        /\ pc \in {"done", "error"}
        /\ calls \in 1 .. (MaxLater - 1)
        /\ calls' = calls + 1
        /\ op' = "order"
        /\ end_steps' = e
        /\ bidx' = 0
        /\ bqueue' = <<>>
        /\ bsteps' = {}
        /\ oqueue' = <<>>
        /\ osteps' = <<>>
        /\ err' = ""
        /\ pc' = "build"
        /\ UNCHANGED <<steps, input, dimensions, scatter, sdim, widx, workflow_runs>>

\* wfl.write_wfl_run(end_steps, input), up to the call of _order_wfl_run
CallWrite ==
    \E in \in Inputs :
        /\ Enter("write", <<NSteps>>, in)
        /\ dimensions' = _input_dimensions(in)
        /\ pc' = "build"

(***************************************************************************)
(* The Wfl objects after construction (__init__, _read_steps, _attributes).*)
(***************************************************************************)
NoGather == [n \in Names |-> 0]

\* the steps reachable backward from the steps in S, in the dependencies deps
RECURSIVE Reach(_, _)
Reach(deps, S) ==
    LET T == S \cup UNION {deps[n] : n \in S \cap Names}
    IN  IF T = S THEN S ELSE Reach(deps, T)

\* meta-workflows without scatter and gather: each step depends on steps declared
\* before it, and possibly on a step that is not defined
OrderWorkflows ==
    {[n \in Names |-> Step(0, NoGather, deps[n])] :
        deps \in {d \in [Names -> SUBSET (Names \cup {MissingName})] :
                     \A n \in Names : \A m \in d[n] : m < n \/ m = MissingName}}

\* meta-workflows without scatter and gather in which each step has one dependency
\* at most, on any step, itself included: chains, and cycles
ChainWorkflows ==
    {[n \in Names |-> Step(0, NoGather, deps[n])] :
        deps \in {d \in [Names -> SUBSET Names] :
                     \A n \in Names : Cardinality(d[n]) <= 1}}

\* the steps a workflow entry may parse to, its dependencies being among before
StepsAfter(before) ==
    {Step(is_scatter, gather_from, dependencies) :
        is_scatter \in 0 .. MaxDim,
        dependencies \in SUBSET before,
        gather_from \in {g \in [Names -> 0 .. MaxGather] :
                            \A n \in Names : g[n] # 0 => n \in before}}

UnusedStep == Step(0, NoGather, {})

RECURSIVE WorkflowsTo(_)
WorkflowsTo(n) ==
    IF n = 0 THEN {<<>>}
    ELSE {Append(w, st) : w \in WorkflowsTo(n - 1), st \in StepsAfter(1 .. (n - 1))}

\* meta-workflows with scatter and gather; gather_from names dependencies only, and
\* a step the last step does not reach carries no attribute
WriteWorkflows ==
    {w \in WorkflowsTo(NSteps) :
        /\ \A n \in Names : \A m \in Names :
               w[n].gather_from[m] # 0 => m \in w[n].dependencies
        /\ \A n \in Names \ Reach([m \in Names |-> w[m].dependencies], {NSteps}) :
               w[n] = UnusedStep}

(***************************************************************************)
(* run_metawfr: the Run document, the metadata store, the backend.         *)
(***************************************************************************)
Shards == 1 .. NShards
Passes == 1 .. NPasses

\* MetaWorkflowRun.final_status as derived from the shard statuses
FinalStatus(workflow_runs_) ==
    IF \E s \in Shards : workflow_runs_[s] = "failed" THEN "failed"
    ELSE IF \A s \in Shards : workflow_runs_[s] = "completed" THEN "completed"
    ELSE IF \E s \in Shards : workflow_runs_[s] = "running" THEN "running"
    ELSE "pending"

\* the shards to run, were the dependencies not looked at
ToRunPending(workflow_runs_) ==
    SelectSeq([s \in Shards |-> s], LAMBDA s : workflow_runs_[s] = "pending")

\* the shards to run: pending, all dependencies completed, in the order of the run
ToRun(workflow_runs_) ==
    SelectSeq([s \in Shards |-> s], LAMBDA s :
        /\ workflow_runs_[s] = "pending"
        /\ \A d \in run_deps[s] : workflow_runs_[d] = "completed")

\* the patch_dict the input generator yields with shard s: the workflow_runs of the
\* MetaWorkflowRun object and the final_status derived from them
PatchDict(workflow_runs_, s) ==
    [workflow_runs |-> workflow_runs_, final_status |-> FinalStatus(workflow_runs_),
     shard |-> s]

\* check_status(meta_workflow_run, valid_final_status)
check_status(doc, valid_final_status) ==
    IF doc.status \notin {"obsolete", "deleted"}
    THEN IF valid_final_status # {}
         THEN doc.final_status \in valid_final_status
         ELSE TRUE
    ELSE FALSE

\* ff_utils.patch_metadata, were the patch body dropped
patch_metadata_lost(doc, body) == doc

\* ff_utils.patch_metadata(patch_dict, metawfr_uuid): the document after the PATCH
patch_metadata(doc, body) ==
    [doc EXCEPT !.workflow_runs = body.workflow_runs,
                !.final_status = body.final_status]

\* the valid_status arguments tried
ValidStatusChoices == {{}, {"pending", "running"}}

Active(p) == ppc[p] \in {"loop", "patch"}

\* lines 51-63: fetch the document, check final_status, build the input generator;
\* alone = no other pass is between its fetch and its end
Fetch(p, alone) ==
    /\ ppc[p] = "idle"
    /\ alone => \A q \in Passes : ~Active(q)
    /\ \E mc \in 0 .. MaxCount, vs \in ValidStatusChoices, ok \in BOOLEAN :
           /\ maxcount' = [maxcount EXCEPT ![p] = mc]
           /\ valid_status' = [valid_status EXCEPT ![p] = vs]
           /\ IF ~ok
              THEN /\ ppc' = [ppc EXCEPT ![p] = "aborted"]
                   /\ UNCHANGED <<meta_workflow_run, run_obj, in_gen>>
              ELSE LET perform_action == IF vs # {} THEN check_status(store, vs) ELSE TRUE
                   IN  /\ meta_workflow_run' = [meta_workflow_run EXCEPT ![p] = store]
                       /\ IF perform_action
                          THEN /\ run_obj' = [run_obj EXCEPT ![p] = store.workflow_runs]
                               /\ in_gen' = [in_gen EXCEPT ![p] = ToRun(store.workflow_runs)]
                               /\ ppc' = [ppc EXCEPT ![p] = "loop"]
                          ELSE /\ ppc' = [ppc EXCEPT ![p] = "skipped"]
                               /\ UNCHANGED <<run_obj, in_gen>>
    /\ UNCHANGED <<run_deps, store, backend, patches, patch_dict, count, failed_at>>

\* lines 65-66, were a failure of run_workflow caught and the loop continued
RunWorkflowCaught(p) ==
    /\ ppc[p] = "loop"
    /\ in_gen[p] # <<>>
    /\ LET s == Head(in_gen[p])
           runs == [run_obj[p] EXCEPT ![s] = "running"]
       IN  /\ in_gen' = [in_gen EXCEPT ![p] = Tail(@)]
           /\ patch_dict' = [patch_dict EXCEPT ![p] = PatchDict(runs, s)]
           /\ \E ok \in BOOLEAN :
                  IF ok
                  THEN /\ backend' = Append(backend, [pass |-> p, shard |-> s])
                       /\ run_obj' = [run_obj EXCEPT ![p] = runs]
                       /\ ppc' = [ppc EXCEPT ![p] = "patch"]
                       /\ UNCHANGED failed_at
                  ELSE /\ run_obj' = [run_obj EXCEPT ![p] = [@ EXCEPT ![s] = "failed"]]
                       /\ failed_at' = [failed_at EXCEPT ![p] = s]
                       /\ UNCHANGED <<backend, ppc>>
    /\ UNCHANGED <<run_deps, store, patches, meta_workflow_run, count, maxcount,
                   valid_status>>

\* lines 65-66: the generator yields the next shard (marked running in run_obj) with
\* its patch_dict, and the shard is handed to the backend; run_workflow may raise
RunWorkflow(p) ==
    /\ ppc[p] = "loop"
    /\ in_gen[p] # <<>>
    /\ LET s == Head(in_gen[p])
           runs == [run_obj[p] EXCEPT ![s] = "running"]
       IN  /\ run_obj' = [run_obj EXCEPT ![p] = runs]
           /\ in_gen' = [in_gen EXCEPT ![p] = Tail(@)]
           /\ patch_dict' = [patch_dict EXCEPT ![p] = PatchDict(runs, s)]
           /\ \E ok \in BOOLEAN :
                  IF ok
                  THEN /\ backend' = Append(backend, [pass |-> p, shard |-> s])
                       /\ ppc' = [ppc EXCEPT ![p] = "patch"]
                       /\ UNCHANGED failed_at
                  ELSE /\ ppc' = [ppc EXCEPT ![p] = "aborted"]
                       /\ failed_at' = [failed_at EXCEPT ![p] = s]
                       /\ UNCHANGED backend
    /\ UNCHANGED <<run_deps, store, patches, meta_workflow_run, count, maxcount,
                   valid_status>>

\* lines 67-72, were the loop left only once count exceeds maxcount
PatchCountingLate(p) ==
    /\ ppc[p] = "patch"
    /\ \E ok \in BOOLEAN :
           IF ok
           THEN /\ store' = patch_metadata(store, patch_dict[p])
                /\ patches' = Append(patches, [pass |-> p, shard |-> patch_dict[p].shard])
                /\ count' = [count EXCEPT ![p] = @ + 1]
                /\ ppc' = [ppc EXCEPT ![p] =
                       IF maxcount[p] # 0 /\ count[p] + 1 > maxcount[p]
                       THEN "done" ELSE "loop"]
           ELSE /\ ppc' = [ppc EXCEPT ![p] = "aborted"]
                /\ UNCHANGED <<store, patches, count>>
    /\ UNCHANGED <<run_deps, backend, meta_workflow_run, run_obj, in_gen, patch_dict,
                   maxcount, valid_status, failed_at>>

\* lines 67-72: PATCH the document, count, leave the loop at maxcount;
\* patch_metadata may raise
Patch(p) ==
    /\ ppc[p] = "patch"
    /\ \E ok \in BOOLEAN :
           IF ok
           THEN /\ store' = patch_metadata(store, patch_dict[p])
                /\ patches' = Append(patches, [pass |-> p, shard |-> patch_dict[p].shard])
                /\ count' = [count EXCEPT ![p] = @ + 1]
                /\ ppc' = [ppc EXCEPT ![p] =
                       IF maxcount[p] # 0 /\ count[p] + 1 >= maxcount[p]
                       THEN "done" ELSE "loop"]
           ELSE /\ ppc' = [ppc EXCEPT ![p] = "aborted"]
                /\ UNCHANGED <<store, patches, count>>
    /\ UNCHANGED <<run_deps, backend, meta_workflow_run, run_obj, in_gen, patch_dict,
                   maxcount, valid_status, failed_at>>

\* line 65: the generator is exhausted
LoopEnd(p) ==
    /\ ppc[p] = "loop"
    /\ in_gen[p] = <<>>
    /\ ppc' = [ppc EXCEPT ![p] = "done"]
    /\ UNCHANGED <<run_deps, store, backend, patches, meta_workflow_run, run_obj, in_gen,
                   patch_dict, count, maxcount, valid_status, failed_at>>

\* the engine acknowledges a running shard: it is recorded completed or failed
Acknowledge ==
    /\ \E s \in Shards, result \in {"completed", "failed"} :
           /\ store.workflow_runs[s] = "running"
           /\ LET runs == [store.workflow_runs EXCEPT ![s] = result]
              IN  store' = [store EXCEPT !.workflow_runs = runs,
                                         !.final_status =
                                             IF @ = "stopped" THEN @ ELSE FinalStatus(runs)]
    /\ UNCHANGED <<run_deps, backend, patches, ppc, meta_workflow_run, run_obj, in_gen,
                   patch_dict, count, maxcount, valid_status, failed_at>>

\* cancellation: between two passes a caller sets the final_status of the Run to the
\* terminal value stopped
Stop ==
    /\ store.final_status # "stopped"
    /\ \A q \in Passes : ~Active(q)
    /\ store' = [store EXCEPT !.final_status = "stopped"]
    /\ UNCHANGED <<run_deps, backend, patches, ppc, meta_workflow_run, run_obj, in_gen,
                   patch_dict, count, maxcount, valid_status, failed_at>>

\* the Runs tried: each shard depends on shards before it in workflow_runs
RunDependencies ==
    {d \in [Shards -> SUBSET Shards] : \A s \in Shards : \A m \in d[s] : m < s}

NewDocument ==
    [workflow_runs |-> [s \in Shards |-> "pending"], final_status |-> "pending",
     status |-> "current"]

InitRun ==
    /\ store = NewDocument
    /\ backend = <<>>
    /\ patches = <<>>
    /\ ppc = [p \in Passes |-> "idle"]
    /\ meta_workflow_run = [p \in Passes |-> NewDocument]
    /\ run_obj = [p \in Passes |-> NewDocument.workflow_runs]
    /\ in_gen = [p \in Passes |-> <<>>]
    /\ patch_dict = [p \in Passes |-> PatchDict(NewDocument.workflow_runs, 0)]
    /\ count = [p \in Passes |-> 0]
    /\ maxcount = [p \in Passes |-> 0]
    /\ valid_status = [p \in Passes |-> {}]
    /\ failed_at = [p \in Passes |-> 0]

InitCall ==
    /\ pc = "idle"
    /\ op = ""
    /\ calls = 0
    /\ end_steps = <<>>
    /\ input = Lst(<<Leaf>>)
    /\ bidx = 0
    /\ bqueue = <<>>
    /\ bsteps = {}
    /\ oqueue = <<>>
    /\ osteps = <<>>
    /\ dimensions = _input_dimensions(Lst(<<Leaf>>))
    /\ scatter = NoScatter
    /\ sdim = NoScatter
    /\ widx = 0
    /\ workflow_runs = <<>>
    /\ err = ""

(***************************************************************************)
(* create_metawfr.py: MetaWorkflowRunInput                                 *)
(***************************************************************************)
\* what a call returned or raised, and the value of a call not made yet
Return(v) == [called |-> TRUE, raised |-> "", value |-> v]

Raise(error) == [called |-> TRUE, raised |-> error, value |-> <<>>]

NoResult == [called |-> FALSE, raised |-> "", value |-> <<>>]

\* the sample indices and the file uuids of the SampleProcessing
SampleIndices == 0 .. MaxSamples - 1

Uuids == 1 .. MaxUuids

\* the values input_dimensions takes: input_arg.get("dimensionality") is None
\* (written NoDimensionality) when the declaration carries none
NoDimensionality == -1

Dimensionalities == {NoDimensionality} \cup (0 .. MaxDim)

\* the file values an adapter yields: {sample index: [uuid, ...]}, a sample's list
\* possibly empty (input_crams), the dict possibly empty
FileLists == UNION {[1 .. n -> Uuids] : n \in 0 .. MaxUuids}

FileValues == UNION {[K -> FileLists] : K \in SUBSET SampleIndices}

\* lines 374-401: the loop over the sorted sample indices, result so far in result
RECURSIVE FormatSamples(_, _, _, _)
FormatSamples(keys, file_value_, input_dimensions_, result) ==
    IF keys = <<>> THEN Return(result)
    ELSE LET sample_idx == Head(keys)
             sample_file_uuids == file_value_[sample_idx]
         IN  IF input_dimensions_ = 1
             THEN IF Len(sample_file_uuids) > 1
                  THEN Raise("multiple input files")
                  ELSE FormatSamples(Tail(keys), file_value_, input_dimensions_,
                           result \o [k \in 1 .. Len(sample_file_uuids) |->
                               [file |-> sample_file_uuids[k],
                                dimension |-> <<sample_idx>>]])
             ELSE IF input_dimensions_ = 2
             THEN FormatSamples(Tail(keys), file_value_, input_dimensions_,
                      result \o [k \in 1 .. Len(sample_file_uuids) |->
                          [file |-> sample_file_uuids[k],
                           dimension |-> <<sample_idx, k - 1>>]])
             ELSE Raise("unexpected dimension")

\* MetaWorkflowRunInput.format_file_input_value(file_parameter, file_value,
\* input_dimensions); str(i) is written i and "i,j" is written <<i, j>>
format_file_input_value(file_value_, input_dimensions_) ==
    FormatSamples(Sorted(DOMAIN file_value_), file_value_, input_dimensions_, <<>>)

\* a call of format_file_input_value on the arguments drawn
FormatFileInputValue ==
    /\ ~formatted.called
    /\ formatted' = format_file_input_value(file_value, input_arg_dimensions)
    /\ UNCHANGED <<file_value, input_arg_dimensions>>

InitFormat ==
    /\ file_value \in FileValues
    /\ input_arg_dimensions \in Dimensionalities
    /\ formatted = NoResult

NoFormat ==
    /\ file_value = <<>>
    /\ input_arg_dimensions = NoDimensionality
    /\ formatted = NoResult

\* the argument names a MetaWorkflow declares and str.lower() of each
FileArgumentNames == {"INPUT_BAMS", "input_vcfs"}

ParameterArgumentNames == {"sample_names", "ploidy"}

lower ==
    [n \in FileArgumentNames \cup ParameterArgumentNames |->
        IF n = "INPUT_BAMS" THEN "input_bams" ELSE n]

\* the input declarations of a MetaWorkflow: literal is the key of the literal
\* default the declaration carries ("files", "value"), "" when it carries none
FileArguments ==
    [argument_name : FileArgumentNames, argument_type : {"file"},
     dimensionality : Dimensionalities, literal : {"", "files"}]

ParameterArguments ==
    [argument_name : ParameterArgumentNames, argument_type : {"parameter"},
     dimensionality : {NoDimensionality}, literal : {"", "value"}]

OtherArguments ==
    [argument_name : {"ploidy"}, argument_type : {"reference"},
     dimensionality : {NoDimensionality}, literal : {"", "value"}]

InputArguments == FileArguments \cup ParameterArguments \cup OtherArguments

MetaWorkflowInputs == UNION {[1 .. n -> InputArguments] : n \in 0 .. MaxArgs}

\* InputPropertiesFromSampleProcessing: the properties it has are its fields; it
\* has input_bams ({sample index: [uuid]} over all its samples) and sample_names,
\* and neither input_vcfs nor ploidy
AdapterFiles ==
    {fv \in FileValues :
        /\ DOMAIN fv # {}
        /\ DOMAIN fv = 0 .. Cardinality(DOMAIN fv) - 1
        /\ \A i \in DOMAIN fv : \A k \in 1 .. Len(fv[i]) : fv[i][k] = k}

Adapters ==
    {[input_bams |-> fv, sample_names |-> Sorted(DOMAIN fv)] : fv \in AdapterFiles}

\* MetaWorkflowRunInput.cast_parameter_value: json.dumps of a list
cast_parameter_value(parameter_value) == [json |-> parameter_value]

\* MetaWorkflowRunInput.fetch_parameters, result so far in result
RECURSIVE fetch_parameters(_, _, _)
fetch_parameters(parameters_to_fetch, input_properties_, result) ==
    IF parameters_to_fetch = <<>> THEN Return(result)
    ELSE LET parameter == Head(parameters_to_fetch).argument_name
         IN  IF lower[parameter] \notin DOMAIN input_properties_
             THEN Raise("could not find input parameter")
             ELSE fetch_parameters(Tail(parameters_to_fetch), input_properties_,
                      Append(result,
                          [argument_name |-> parameter, argument_type |-> "parameter",
                           value |-> cast_parameter_value(
                                         input_properties_[lower[parameter]])]))

\* MetaWorkflowRunInput.fetch_files, result so far in result
RECURSIVE fetch_files(_, _, _)
fetch_files(files_to_fetch, input_properties_, result) ==
    IF files_to_fetch = <<>> THEN Return(result)
    ELSE LET file_parameter == Head(files_to_fetch).argument_name
             input_dimensions_ == Head(files_to_fetch).dimensionality
         IN  IF lower[file_parameter] \notin DOMAIN input_properties_
             THEN Raise("could not find input parameter")
             ELSE LET formatted_file_value ==
                          format_file_input_value(
                              input_properties_[lower[file_parameter]],
                              input_dimensions_)
                  IN  IF formatted_file_value.raised # ""
                      THEN formatted_file_value
                      ELSE fetch_files(Tail(files_to_fetch), input_properties_,
                               Append(result,
                                   [argument_name |-> file_parameter,
                                    argument_type |-> "file",
                                    files |-> formatted_file_value.value]))

\* MetaWorkflowRunInput.create_input
create_input(meta_workflow_input, input_properties_) ==
    LET input_args == SelectSeq(meta_workflow_input, LAMBDA a : a.literal = "")
        input_files_to_fetch ==
            SelectSeq(input_args, LAMBDA a : a.argument_type = "file")
        input_parameters_to_fetch ==
            SelectSeq(input_args, LAMBDA a : a.argument_type = "parameter")
    IN  IF \E i \in 1 .. Len(input_args) :
               input_args[i].argument_type \notin {"file", "parameter"}
        THEN Raise("unexpected argument type")
        ELSE LET input_parameters ==
                     fetch_parameters(input_parameters_to_fetch, input_properties_, <<>>)
             IN  IF input_parameters.raised # ""
                 THEN input_parameters
                 ELSE LET input_files ==
                              fetch_files(input_files_to_fetch, input_properties_, <<>>)
                      IN  IF input_files.raised # ""
                          THEN input_files
                          ELSE Return(input_parameters.value \o input_files.value)

(***************************************************************************)
(* create_metawfr.py: MetaWorkflowRunFromSampleProcessing                  *)
(***************************************************************************)
\* the SampleProcessing items the embed request may return: the uuids of the
\* MetaWorkflowRuns linked to it already
SampleProcessings == [found : {TRUE}, meta_workflow_runs : {<<>>, <<1>>}]

NoSampleProcessing == [found |-> FALSE, meta_workflow_runs |-> <<>>]

NoMetaWorkflow == [found |-> FALSE, input |-> <<>>]

\* str(uuid.uuid4()): a uuid that no MetaWorkflowRun linked already carries
uuid4(existing_meta_workflow_runs) == Len(existing_meta_workflow_runs) + 1

\* create_meta_workflow_run: the document, before its workflow_runs are created
create_meta_workflow_run(meta_workflow_run_input_, sample_processing_) ==
    [input |-> meta_workflow_run_input_, final_status |-> "pending",
     workflow_runs |-> <<>>, uuid |-> uuid4(sample_processing_.meta_workflow_runs)]

\* create_workflow_runs: the first input item with files is handed to write_run,
\* which raises or returns the shards (written_ok)
create_workflow_runs(meta_workflow_run_, written_ok) ==
    LET reformatted_input == meta_workflow_run_.input
        with_files ==
            SelectSeq(reformatted_input, LAMBDA item : "files" \in DOMAIN item)
    IN  IF with_files = <<>> THEN Raise("no input files")
        ELSE IF ~written_ok THEN Raise("write_run")
        ELSE Return([meta_workflow_run_ EXCEPT !.workflow_runs = <<"shards">>])

\* __init__ from the creation of the input on: create_input, then
\* create_meta_workflow_run with create_workflow_runs
CreateRun(meta_workflow_, input_properties_, sample_processing_, written_ok) ==
    LET created == create_input(meta_workflow_.input, input_properties_)
    IN  IF created.raised # "" THEN created
        ELSE create_workflow_runs(
                 create_meta_workflow_run(created.value, sample_processing_), written_ok)

\* what __init__ leaves: the items fetched, the adapter, the input created, and
\* the object (cpc = "constructed") or the error raised (cpc = "failed")
Constructed(sample_processing_, meta_workflow_, input_properties_, created, error) ==
    /\ sample_processing' = sample_processing_
    /\ meta_workflow' = meta_workflow_
    /\ input_properties' = input_properties_
    /\ meta_workflow_run_input' = created
    /\ cerr' = error
    /\ cpc' = IF error = "" THEN "constructed" ELSE "failed"

\* MetaWorkflowRunFromSampleProcessing.__init__, were the document POSTed as soon
\* as it is assembled, before its workflow_runs are created
ConstructPersisting ==
    /\ cpc = "idle"
    /\ \E sp \in SampleProcessings, mwi \in MetaWorkflowInputs, ip \in Adapters,
          written_ok \in BOOLEAN :
           LET mw == [found |-> TRUE, input |-> mwi]
               created == create_input(mwi, ip)
               run == CreateRun(mw, ip, sp, written_ok)
           IN  /\ Constructed(sp, mw, ip, created, run.raised)
               /\ posted' = IF created.raised = ""
                            THEN Append(posted, create_meta_workflow_run(created.value, sp))
                            ELSE posted
    /\ UNCHANGED patched

\* MetaWorkflowRunFromSampleProcessing.__init__
Construct ==
    /\ cpc = "idle"
    /\ \/ Constructed(NoSampleProcessing, NoMetaWorkflow, <<>>, NoResult,
                      "no SampleProcessing")
       \/ \E sp \in SampleProcessings :
              Constructed(sp, NoMetaWorkflow, <<>>, NoResult, "no MetaWorkflow")
       \/ \E sp \in SampleProcessings, mwi \in MetaWorkflowInputs, ip \in Adapters,
             written_ok \in BOOLEAN :
              LET mw == [found |-> TRUE, input |-> mwi]
              IN  Constructed(sp, mw, ip, create_input(mwi, ip),
                              CreateRun(mw, ip, sp, written_ok).raised)
    /\ UNCHANGED <<posted, patched>>

\* the document the object holds once constructed
MetaWorkflowRunDocument ==
    create_workflow_runs(
        create_meta_workflow_run(meta_workflow_run_input.value, sample_processing),
        TRUE).value

\* post_meta_workflow_run, were a failure of the POST swallowed
PostSwallowing ==
    /\ cpc = "constructed"
    /\ \E ok \in BOOLEAN :
           /\ posted' = IF ok THEN Append(posted, MetaWorkflowRunDocument) ELSE posted
           /\ cpc' = "posted"
    /\ UNCHANGED <<sample_processing, meta_workflow, input_properties,
                   meta_workflow_run_input, cerr, patched>>

\* post_and_patch, lines 212 and 215-226: post_meta_workflow_run
Post ==
    /\ cpc = "constructed"
    /\ \E ok \in BOOLEAN :
           IF ok
           THEN /\ posted' = Append(posted, MetaWorkflowRunDocument)
                /\ cpc' = "posted"
                /\ UNCHANGED cerr
           ELSE /\ cpc' = "post failed"
                /\ cerr' = "MetaWorkflowRun not POSTed"
                /\ UNCHANGED posted
    /\ UNCHANGED <<sample_processing, meta_workflow, input_properties,
                   meta_workflow_run_input, patched>>

\* post_and_patch, lines 213 and 228-247: patch_sample_processing
PatchSampleProcessing ==
    /\ cpc = "posted"
    /\ \E ok \in BOOLEAN :
           IF ok
           THEN /\ patched' = Append(patched,
                        Append(sample_processing.meta_workflow_runs,
                               MetaWorkflowRunDocument.uuid))
                /\ cpc' = "patched"
                /\ UNCHANGED cerr
           ELSE /\ cpc' = "patch failed"
                /\ cerr' = "SampleProcessing could not be PATCHed"
                /\ UNCHANGED patched
    /\ UNCHANGED <<sample_processing, meta_workflow, input_properties,
                   meta_workflow_run_input, posted>>

InitCreate ==
    /\ cpc = "idle"
    /\ sample_processing = NoSampleProcessing
    /\ meta_workflow = NoMetaWorkflow
    /\ input_properties = <<>>
    /\ meta_workflow_run_input = NoResult
    /\ cerr = ""
    /\ posted = <<>>
    /\ patched = <<>>

(***************************************************************************)
(* _shards on the shape of an input, called on their own                   *)
(***************************************************************************)
\* the non-empty lists over S that hold at most MaxLeaves file handles
NestedOver(S) == {Lst(s) : s \in {q \in SeqsUpTo(S, MaxLeaves) : Size(Lst(q)) <= MaxLeaves}}

\* the inputs of one, two and three levels, every list non-empty
NestedInputs ==
    NestedOver({Leaf}) \cup NestedOver(NestedOver({Leaf}))
        \cup NestedOver(NestedOver(NestedOver({Leaf})))

\* self._shards(self._input_dimensions(input), dimension), for a dimension that is
\* a key of the dimensions
EnumerateShards ==
    /\ shard_dimension = 0
    /\ \E d \in 1 .. MaxDim :
           /\ HasDimension(_input_dimensions(nested), d)
           /\ shard_dimension' = d
           /\ shard_list' = _shards(_input_dimensions(nested), d)
    /\ UNCHANGED nested

InitShards ==
    /\ nested \in NestedInputs
    /\ shard_dimension = 0
    /\ shard_list = <<>>

NoShards ==
    /\ nested = Lst(<<Leaf>>)
    /\ shard_dimension = 0
    /\ shard_list = <<>>

(***************************************************************************)
(* Step._attributes on the arguments of one step.                          *)
(***************************************************************************)
\* an argument of a step: 0 stands for a key that is absent (arg.get gives None)
StepArguments ==
    [scatter : 0 .. MaxGather, source_step : 0 .. NSteps, gather : 0 .. MaxGather]

\* lines 90-104, were is_scatter set by every argument that has a scatter
RECURSIVE _attributes_last(_, _)
_attributes_last(self, arguments) ==
    IF arguments = <<>> THEN self
    ELSE LET arg == Head(arguments)
             scattered == IF arg.scatter # 0
                          THEN [self EXCEPT !.is_scatter = arg.scatter]
                          ELSE self
             sourced == IF arg.source_step # 0
                        THEN [scattered EXCEPT
                                 !.dependencies = @ \cup {arg.source_step},
                                 !.gather_from =
                                     IF arg.gather # 0 /\ @[arg.source_step] = 0
                                     THEN [@ EXCEPT ![arg.source_step] = arg.gather]
                                     ELSE @]
                        ELSE scattered
         IN  _attributes_last(sourced, Tail(arguments))

\* lines 90-104: for arg in self.arguments, in declaration order; gather_from holds 0
\* for a key that is absent
RECURSIVE _attributes(_, _)
_attributes(self, arguments) ==
    IF arguments = <<>> THEN self
    ELSE LET arg == Head(arguments)
             scattered == IF self.is_scatter = 0 /\ arg.scatter # 0
                          THEN [self EXCEPT !.is_scatter = arg.scatter]
                          ELSE self
             sourced == IF arg.source_step # 0
                        THEN [scattered EXCEPT
                                 !.dependencies = @ \cup {arg.source_step},
                                 !.gather_from =
                                     IF arg.gather # 0 /\ @[arg.source_step] = 0
                                     THEN [@ EXCEPT ![arg.source_step] = arg.gather]
                                     ELSE @]
                        ELSE scattered
         IN  _attributes(sourced, Tail(arguments))

\* Step.__init__, lines 74-84: the attributes start empty and _attributes fills them
ParseStep ==
    /\ ~step_attributes.called
    /\ step_attributes' =
           Return(_attributes(Step(0, [n \in Names |-> 0], {}), step_arguments))
    /\ UNCHANGED step_arguments

InitStep ==
    /\ step_arguments \in SeqsUpTo(StepArguments, MaxStepArgs)
    /\ step_attributes = NoResult

NoStep ==
    /\ step_arguments = <<>>
    /\ step_attributes = NoResult


(***************************************************************************)
(* utils.chunk_ids and utils.make_embed_request.                           *)
(***************************************************************************)
\* chunk_size = 5
chunk_size == 5

\* the identifier lists tried
IdLists == {<<>>} \cup SeqsUpTo(1 .. MaxIdValue, MaxIds)

\* chunk_ids, were the chunks one identifier longer
chunk_ids_long(ids_) ==
    LET size == chunk_size + 1
    IN  [k \in 1 .. ((Len(ids_) + size - 1) \div size) |->
            SubSeq(ids_, size * (k - 1) + 1,
                   IF size * k < Len(ids_) THEN size * k ELSE Len(ids_))]

\* chunk_ids(ids): ids[idx: idx + chunk_size] for idx in range(0, len(ids), chunk_size)
chunk_ids(ids_) ==
    [k \in 1 .. ((Len(ids_) + chunk_size - 1) \div chunk_size) |->
        SubSeq(ids_, chunk_size * (k - 1) + 1,
               IF chunk_size * k < Len(ids_) THEN chunk_size * k ELSE Len(ids_))]

\* the item the portal holds for an identifier, with the fields asked for
EmbeddedItem(id) == [uuid |-> id]

\* the response of POST /embed to the identifiers of one request, in their order
EmbedResponse(id_chunk) == [i \in 1 .. Len(id_chunk) |-> EmbeddedItem(id_chunk[i])]

\* lines 22-28: result = [], id_chunks = chunk_ids(ids)
MakeEmbedRequest ==
    /\ embed_pc = "idle"
    /\ id_chunks' = chunk_ids(ids)
    /\ embed_pc' = "loop"
    /\ UNCHANGED <<ids, single_item, embed_requests, embed_result>>

\* lines 29-34: one POST to /embed with the identifiers of the next chunk, its
\* response added to result; the request may raise
EmbedRequest ==
    /\ embed_pc = "loop"
    /\ Len(embed_requests) < Len(id_chunks)
    /\ LET id_chunk == id_chunks[Len(embed_requests) + 1]
       IN  /\ embed_requests' = Append(embed_requests, id_chunk)
           /\ \E ok \in BOOLEAN :
                  IF ok
                  THEN /\ embed_result' =
                              Return(embed_result.value \o EmbedResponse(id_chunk))
                       /\ UNCHANGED embed_pc
                  ELSE /\ embed_result' = Raise("Exception")
                       /\ embed_pc' = "error"
    /\ UNCHANGED <<ids, single_item, id_chunks>>

\* lines 35-45: return result, or with single_item its only element, None for none
EmbedReturn ==
    /\ embed_pc = "loop"
    /\ Len(embed_requests) = Len(id_chunks)
    /\ IF single_item
       THEN IF embed_result.value = <<>>
            THEN embed_result' = Return("None") /\ embed_pc' = "done"
            ELSE IF Len(embed_result.value) = 1
                 THEN embed_result' = Return(embed_result.value[1]) /\ embed_pc' = "done"
                 ELSE embed_result' = Raise("ValueError") /\ embed_pc' = "error"
       ELSE embed_pc' = "done" /\ UNCHANGED embed_result
    /\ UNCHANGED <<ids, single_item, id_chunks, embed_requests>>

InitIds ==
    /\ ids \in IdLists
    /\ single_item \in BOOLEAN
    /\ id_chunks = <<>>
    /\ embed_requests = <<>>
    /\ embed_result = Return(<<>>)
    /\ embed_pc = "idle"

NoEmbed ==
    /\ ids = <<>>
    /\ single_item = FALSE
    /\ id_chunks = <<>>
    /\ embed_requests = <<>>
    /\ embed_result = Return(<<>>)
    /\ embed_pc = "idle"


(***************************************************************************)
(* wrangler_utils.merge_qc_items.                                          *)
(***************************************************************************)
\* a QC value: the key derived_from and the value measured
QcValues == [derived_from : 1 .. MaxQcKeys, value : 1 .. MaxQcValue]

\* the qc_values lists of one quality-metric item
QcValueLists == {<<>>} \cup SeqsUpTo(QcValues, MaxQcValues)

\* the uuid of the i-th quality-metric item of the file, oldest first
QmUuid(i) == 10 + i

FileUuid == 1

\* qc_values_dict[derived_from] = qcv, were a key that is present kept
AssignFirst(dict, qcv) ==
    IF \E k \in 1 .. Len(dict) : dict[k].derived_from = qcv.derived_from
    THEN dict
    ELSE Append(dict, qcv)

\* qc_values_dict[derived_from] = qcv: a dict keeps the position of a key it has
Assign(dict, qcv) ==
    IF \E k \in 1 .. Len(dict) : dict[k].derived_from = qcv.derived_from
    THEN [k \in 1 .. Len(dict) |->
             IF dict[k].derived_from = qcv.derived_from THEN qcv ELSE dict[k]]
    ELSE Append(dict, qcv)

\* for qcv in qc_values: qc_values_dict[derived_from] = qcv
RECURSIVE AssignAll(_, _)
AssignAll(dict, qc_values) ==
    IF qc_values = <<>> THEN dict
    ELSE AssignAll(Assign(dict, Head(qc_values)), Tail(qc_values))

\* lines 147-157: fetch the file, return when it has fewer than two items, else
\* choose the item to keep
MergeStart ==
    /\ merge_pc = "idle"
    /\ file_qms' = [i \in 1 .. Len(qm_items) |-> QmUuid(i)]
    /\ IF Len(qm_items) < 2
       THEN merge_pc' = "done" /\ UNCHANGED qm_uuid_to_keep
       ELSE /\ merge_pc' = "collect"
            /\ qm_uuid_to_keep' =
                   IF mode = "keep_oldest" THEN QmUuid(1) ELSE QmUuid(Len(qm_items))
    /\ UNCHANGED <<qm_items, mode, qm_idx, qc_values_dict, merge_patches>>

\* lines 159-165: one iteration of "for qm in file_qms"
MergeCollect ==
    /\ merge_pc = "collect"
    /\ qm_idx < Len(file_qms)
    /\ qm_idx' = qm_idx + 1
    /\ qc_values_dict' = AssignAll(qc_values_dict, qm_items[qm_idx + 1])
    /\ UNCHANGED <<qm_items, mode, file_qms, qm_uuid_to_keep, merge_pc, merge_patches>>

\* lines 167-171: PATCH the merged values to the item kept; the PATCH may raise
MergePatchItem ==
    /\ merge_pc = "collect"
    /\ qm_idx = Len(file_qms)
    /\ \E ok \in BOOLEAN :
           IF ok
           THEN /\ merge_patches' = Append(merge_patches,
                       [obj_id |-> qm_uuid_to_keep, field |-> "qc_values",
                        body |-> qc_values_dict])
                /\ merge_pc' = "patch"
           ELSE /\ merge_pc' = "error"
                /\ UNCHANGED merge_patches
    /\ UNCHANGED <<qm_items, mode, file_qms, qm_uuid_to_keep, qm_idx, qc_values_dict>>

\* lines 172-176: PATCH the file to reference the item kept; the PATCH may raise
MergePatchFile ==
    /\ merge_pc = "patch"
    /\ \E ok \in BOOLEAN :
           IF ok
           THEN /\ merge_patches' = Append(merge_patches,
                       [obj_id |-> FileUuid, field |-> "quality_metrics",
                        body |-> <<qm_uuid_to_keep>>])
                /\ merge_pc' = "done"
           ELSE /\ merge_pc' = "error"
                /\ UNCHANGED merge_patches
    /\ UNCHANGED <<qm_items, mode, file_qms, qm_uuid_to_keep, qm_idx, qc_values_dict>>

InitQms ==
    /\ qm_items \in {<<>>} \cup SeqsUpTo(QcValueLists, MaxQms)
    /\ mode \in {"keep_oldest", "keep_newest"}
    /\ file_qms = <<>>
    /\ qm_uuid_to_keep = 0
    /\ qm_idx = 0
    /\ qc_values_dict = <<>>
    /\ merge_patches = <<>>
    /\ merge_pc = "idle"

NoQms ==
    /\ qm_items = <<>>
    /\ mode = "keep_oldest"
    /\ file_qms = <<>>
    /\ qm_uuid_to_keep = 0
    /\ qm_idx = 0
    /\ qc_values_dict = <<>>
    /\ merge_patches = <<>>
    /\ merge_pc = "idle"


(***************************************************************************)
(* Two MetaWorkflowRunFromSampleProcessing objects on one SampleProcessing.*)
(***************************************************************************)
Creators == 1 .. NCreators

\* the lists of runs linked to the SampleProcessing before the objects are made
LinkedLists == {<<>>} \cup {s \in SeqsUpTo(1 .. MaxLinked, MaxLinked) :
                                \A i, j \in 1 .. Len(s) : i # j => s[i] # s[j]}

\* str(uuid.uuid4()) of the object c: a fresh identifier
NewUuid(c) == 10 + c

\* __init__, lines 99-130: read the SampleProcessing, keep its meta_workflow_runs,
\* draw the uuid of the new run
Init_(c) ==
    /\ link_pc[c] = "new"
    /\ existing_runs' =
           [existing_runs EXCEPT ![c] = sp_meta_workflow_runs]
    /\ meta_workflow_run_uuid' = [meta_workflow_run_uuid EXCEPT ![c] = NewUuid(c)]
    /\ link_pc' = [link_pc EXCEPT ![c] = "constructed"]
    /\ UNCHANGED <<linked_before, sp_meta_workflow_runs, portal_runs>>

\* post_meta_workflow_run, lines 215-226; the POST may raise
post_meta_workflow_run(c) ==
    /\ link_pc[c] = "constructed"
    /\ \E ok \in BOOLEAN :
           IF ok
           THEN /\ portal_runs' = portal_runs \cup {meta_workflow_run_uuid[c]}
                /\ link_pc' = [link_pc EXCEPT ![c] = "posted"]
           ELSE /\ link_pc' = [link_pc EXCEPT ![c] = "error"]
                /\ UNCHANGED portal_runs
    /\ UNCHANGED <<linked_before, sp_meta_workflow_runs, existing_runs,
                   meta_workflow_run_uuid>>

\* patch_sample_processing, lines 228-247: the PATCH body is the list read by
\* __init__ with the uuid of the new run appended; the PATCH may raise
patch_sample_processing(c) ==
    /\ link_pc[c] = "posted"
    /\ \E ok \in BOOLEAN :
           IF ok
           THEN /\ sp_meta_workflow_runs' =
                       Append(existing_runs[c], meta_workflow_run_uuid[c])
                /\ link_pc' = [link_pc EXCEPT ![c] = "patched"]
           ELSE /\ link_pc' = [link_pc EXCEPT ![c] = "error"]
                /\ UNCHANGED sp_meta_workflow_runs
    /\ UNCHANGED <<linked_before, portal_runs, existing_runs,
                   meta_workflow_run_uuid>>

InitLinks ==
    /\ linked_before \in LinkedLists
    /\ sp_meta_workflow_runs = linked_before
    /\ portal_runs = Range(linked_before)
    /\ existing_runs = [c \in Creators |-> <<>>]
    /\ meta_workflow_run_uuid = [c \in Creators |-> 0]
    /\ link_pc = [c \in Creators |-> "new"]

NoLinks ==
    /\ linked_before = <<>>
    /\ sp_meta_workflow_runs = <<>>
    /\ portal_runs = {}
    /\ existing_runs = [c \in Creators |-> <<>>]
    /\ meta_workflow_run_uuid = [c \in Creators |-> 0]
    /\ link_pc = [c \in Creators |-> "new"]


(***************************************************************************)
(* InputPropertiesFromSampleProcessing: the samples and the pedigree.      *)
(***************************************************************************)
SampleNames == 1 .. MaxNames

Relationships == {"proband", "mother", "father", "sibling"}

\* the samples lists tried: each Sample with its bam_sample_id, no two alike
SamplesLists ==
    {<<>>} \cup {s \in SeqsUpTo([bam_sample_id : SampleNames], MaxFamily) :
                    \A i, j \in 1 .. Len(s) : i # j => s[i] # s[j]}

\* the samples_pedigree lists tried: each entry with its sample_name and relationship
\* (individual, parents and sex are present), no two entries for one sample, and one
\* proband, one mother and one father at most
PedigreeLists ==
    {<<>>} \cup
    {s \in SeqsUpTo([sample_name : SampleNames, relationship : Relationships], MaxFamily) :
        \A i, j \in 1 .. Len(s) :
            i # j => /\ s[i].sample_name # s[j].sample_name
                     /\ s[i].relationship = s[j].relationship =>
                            s[i].relationship = "sibling"}

\* the indices of the sequence s in S, in ascending order
InOrder(S, s) == SelectSeq([i \in 1 .. Len(s) |-> i], LAMBDA i : i \in S)

\* the one-element list of the largest index in S, empty when S is
LastOf(S) == IF S = {} THEN <<>> ELSE <<CHOOSE i \in S : \A j \in S : j <= i>>

\* sort_by_sample_name, lines 623-647, on the names of the items; 0 is None
SortedIndices(names, proband, mother, father) ==
    LET idxs == 1 .. Len(names)
        proband_idx == {i \in idxs : names[i] = proband}
        mother_idx == {i \in idxs \ proband_idx : mother # 0 /\ names[i] = mother}
        father_idx == {i \in idxs \ (proband_idx \cup mother_idx) :
                          father # 0 /\ names[i] = father}
        other_idx == idxs \ (proband_idx \cup mother_idx \cup father_idx)
    IN  LastOf(proband_idx) \o LastOf(mother_idx) \o LastOf(father_idx)
            \o InOrder(other_idx, names)

\* sort_by_sample_name(samples_pedigree, SAMPLE_NAME, ...)
sort_pedigree(items_to_sort, proband, mother, father) ==
    LET order == SortedIndices([i \in 1 .. Len(items_to_sort) |->
                                   items_to_sort[i].sample_name], proband, mother, father)
    IN  [k \in 1 .. Len(order) |-> items_to_sort[order[k]]]

\* sort_by_sample_name(samples, BAM_SAMPLE_ID, ...)
sort_samples(items_to_sort, proband, mother, father) ==
    LET order == SortedIndices([i \in 1 .. Len(items_to_sort) |->
                                   items_to_sort[i].bam_sample_id], proband, mother, father)
    IN  [k \in 1 .. Len(order) |-> items_to_sort[order[k]]]

\* the sample_name of the last pedigree entry with the relationship r, 0 when none
NameOf(pedigree, r) ==
    LET at == {i \in 1 .. Len(pedigree) : pedigree[i].relationship = r}
    IN  IF at = {} THEN 0 ELSE pedigree[CHOOSE i \in at : \A j \in at : j <= i].sample_name

\* clean_and_sort_samples_and_pedigree(expect_family_structure), lines 520-602
clean_and_sort_samples_and_pedigree(samples_, pedigree, expect) ==
    IF pedigree = <<>> /\ expect THEN Raise("MetaWorkflowRunCreationError")
    ELSE IF samples_ = <<>> THEN Raise("MetaWorkflowRunCreationError")
    ELSE IF expect /\ Len(samples_) # Len(pedigree)
    THEN Raise("MetaWorkflowRunCreationError")
    ELSE IF pedigree # <<>> /\ expect
    THEN LET bam_sample_ids == {samples_[i].bam_sample_id : i \in 1 .. Len(samples_)}
             proband_name == NameOf(pedigree, "proband")
             mother_name == NameOf(pedigree, "mother")
             father_name == NameOf(pedigree, "father")
         IN  IF \E i \in 1 .. Len(pedigree) : pedigree[i].sample_name \notin bam_sample_ids
             THEN Raise("MetaWorkflowRunCreationError")
             ELSE IF proband_name = 0 THEN Raise("MetaWorkflowRunCreationError")
             ELSE Return([samples |->
                              sort_samples(samples_, proband_name, mother_name, father_name),
                          samples_pedigree |->
                              sort_pedigree(pedigree, proband_name, mother_name,
                                            father_name)])
    ELSE Return([samples |-> samples_, samples_pedigree |-> pedigree])

\* InputPropertiesFromSampleProcessing.__init__, lines 500-504
InitProperties ==
    /\ ~sorted.called
    /\ sorted' = clean_and_sort_samples_and_pedigree(samples, samples_pedigree,
                                                     expect_family_structure)
    /\ UNCHANGED <<samples, samples_pedigree, expect_family_structure>>

InitFamily ==
    /\ samples \in SamplesLists
    /\ samples_pedigree \in PedigreeLists
    /\ expect_family_structure \in BOOLEAN
    /\ sorted = NoResult

NoFamily ==
    /\ samples = <<>>
    /\ samples_pedigree = <<>>
    /\ expect_family_structure = TRUE
    /\ sorted = NoResult


(***************************************************************************)
(* FFWfrUtils: the cache of WorkflowRun metadata.                          *)
(***************************************************************************)
JobIds == 1 .. NJobs

\* no WorkflowRun document
NoDocument == [uuid |-> 0, run_status |-> "", output_files |-> 0]

\* the WorkflowRun document of a job: output_files is 0 when the key is absent
WorkflowRuns(job_id) ==
    [uuid : {20 + job_id}, run_status : {"running", "complete"}, output_files : 0 .. 1]

\* what a method makes of the document wfr_metadata gave it
Answer(method, wfr_meta) ==
    IF method = "wfr_metadata" THEN wfr_meta
    ELSE IF method = "wfr_run_status" THEN wfr_meta.run_status
    ELSE IF method = "wfr_run_uuid" THEN wfr_meta.uuid
    ELSE IF wfr_meta.output_files = 0 THEN "None" ELSE wfr_meta.output_files

\* one call of a method that starts with self.wfr_metadata(job_id), lines 75-101:
\* the cached document if there is one; else one search, which may raise; its first
\* result is cached and returned; with no result line 92 evaluates Job.info, and the
\* module binds no name Job (lines 12-16)
Wfr(method, job_id) ==
    /\ wfr_calls < MaxWfrCalls
    /\ wfr_calls' = wfr_calls + 1
    /\ IF _metadata[job_id] # NoDocument
       THEN /\ wfr_call' = [method |-> method, job_id |-> job_id, cached |-> TRUE,
                            found |-> TRUE, queries |-> 0,
                            result |-> Return(Answer(method, _metadata[job_id]))]
            /\ UNCHANGED <<_metadata, wfr_queries>>
       ELSE /\ wfr_queries' = wfr_queries + 1
            /\ \E ok \in BOOLEAN :
                   IF ~ok
                   THEN /\ wfr_call' = [method |-> method, job_id |-> job_id,
                                        cached |-> FALSE, found |-> FALSE, queries |-> 1,
                                        result |-> Raise("FdnConnectionException")]
                        /\ UNCHANGED _metadata
                   ELSE IF portal_wfr[job_id] # NoDocument
                   THEN /\ _metadata' = [_metadata EXCEPT ![job_id] = portal_wfr[job_id]]
                        /\ wfr_call' = [method |-> method, job_id |-> job_id,
                                        cached |-> FALSE, found |-> TRUE, queries |-> 1,
                                        result |-> Return(Answer(method,
                                                                 portal_wfr[job_id]))]
                   ELSE /\ wfr_call' = [method |-> method, job_id |-> job_id,
                                        cached |-> FALSE, found |-> FALSE, queries |-> 1,
                                        result |-> Raise("NameError")]
                        /\ UNCHANGED _metadata
    /\ UNCHANGED portal_wfr

\* wfr_metadata(job_id), lines 75-101
wfr_metadata(job_id) == Wfr("wfr_metadata", job_id)

\* wfr_run_status(job_id), lines 42-52
wfr_run_status(job_id) == Wfr("wfr_run_status", job_id)

\* wfr_run_uuid(job_id), lines 33-40
wfr_run_uuid(job_id) == Wfr("wfr_run_uuid", job_id)

\* wfr_output(job_id), lines 64-73: the second wfr_metadata call finds the cache
wfr_output(job_id) == Wfr("wfr_output", job_id)

\* the portal: the WorkflowRun of a job appears or changes
PortalChange ==
    /\ \E job_id \in JobIds : \E d \in WorkflowRuns(job_id) :
           /\ portal_wfr[job_id] # d
           /\ portal_wfr' = [portal_wfr EXCEPT ![job_id] = d]
    /\ UNCHANGED <<_metadata, wfr_queries, wfr_call, wfr_calls>>

NoCall ==
    [method |-> "", job_id |-> 0, cached |-> FALSE, found |-> FALSE, queries |-> 0,
     result |-> NoResult]

\* FFWfrUtils.__init__, lines 22-31: the cache is empty
InitFFWfrUtils ==
    /\ portal_wfr \in {f \in [JobIds -> {NoDocument} \cup
                                           UNION {WorkflowRuns(j) : j \in JobIds}] :
                          \A j \in JobIds : f[j] = NoDocument \/ f[j] \in WorkflowRuns(j)}
    /\ _metadata = [job_id \in JobIds |-> NoDocument]
    /\ wfr_queries = 0
    /\ wfr_call = NoCall
    /\ wfr_calls = 0

NoFFWfrUtils ==
    /\ portal_wfr = [job_id \in JobIds |-> NoDocument]
    /\ _metadata = [job_id \in JobIds |-> NoDocument]
    /\ wfr_queries = 0
    /\ wfr_call = NoCall
    /\ wfr_calls = 0

\* the variables of the helpers other than those of the helper g keep their
\* defaults
NoUtilExcept(g) ==
    /\ IF g = "shards" THEN TRUE ELSE NoShards
    /\ IF g = "step" THEN TRUE ELSE NoStep
    /\ IF g = "embed" THEN TRUE ELSE NoEmbed
    /\ IF g = "qms" THEN TRUE ELSE NoQms
    /\ IF g = "links" THEN TRUE ELSE NoLinks
    /\ IF g = "family" THEN TRUE ELSE NoFamily
    /\ IF g = "wfr" THEN TRUE ELSE NoFFWfrUtils

\* the variables of the helpers other than those of the helper g are left alone
UtilUnchangedExcept(g) ==
    /\ IF g = "shards" THEN TRUE ELSE UNCHANGED shardvars
    /\ IF g = "step" THEN TRUE ELSE UNCHANGED stepvars
    /\ IF g = "embed" THEN TRUE ELSE UNCHANGED embedvars
    /\ IF g = "qms" THEN TRUE ELSE UNCHANGED qmvars
    /\ IF g = "links" THEN TRUE ELSE UNCHANGED linkvars
    /\ IF g = "family" THEN TRUE ELSE UNCHANGED familyvars
    /\ IF g = "wfr" THEN TRUE ELSE UNCHANGED wfrvars

NoUtil == NoUtilExcept("")

NoRun == [s \in Shards |-> {}]

InitOrder ==
    /\ steps \in OrderWorkflows
    /\ InitCall
    /\ run_deps = NoRun
    /\ InitRun
    /\ NoFormat
    /\ InitCreate
    /\ NoUtil

InitWrite ==
    /\ steps \in WriteWorkflows
    /\ InitCall
    /\ run_deps = NoRun
    /\ InitRun
    /\ NoFormat
    /\ InitCreate
    /\ NoUtil

\* the passes of run_metawfr on one Run, its dependencies drawn from RunDependencies
InitPasses ==
    /\ steps = [n \in Names |-> UnusedStep]
    /\ InitCall
    /\ run_deps \in RunDependencies
    /\ InitRun
    /\ NoFormat
    /\ InitCreate
    /\ NoUtil

\* no call on the Wfl object, no Run: the specifications of create_metawfr
NoWfl ==
    /\ steps = [n \in Names |-> UnusedStep]
    /\ InitCall
    /\ run_deps = NoRun
    /\ InitRun

InitFormatting ==
    /\ NoWfl
    /\ InitFormat
    /\ InitCreate
    /\ NoUtil

InitCreation ==
    /\ NoWfl
    /\ NoFormat
    /\ InitCreate
    /\ NoUtil

NextFormat ==
    FormatFileInputValue /\ UNCHANGED <<wflvars, runvars, crvars, utilvars>>

NextCreate ==
    \/ Construct /\ UNCHANGED <<wflvars, runvars, fmtvars, utilvars>>
    \/ Post /\ UNCHANGED <<wflvars, runvars, fmtvars, utilvars>>
    \/ PatchSampleProcessing /\ UNCHANGED <<wflvars, runvars, fmtvars, utilvars>>

InitCycle ==
    /\ steps \in ChainWorkflows
    /\ InitCall
    /\ run_deps = NoRun
    /\ InitRun
    /\ NoFormat
    /\ InitCreate
    /\ NoUtil

InitEnumeration ==
    /\ NoWfl
    /\ NoFormat
    /\ InitCreate
    /\ InitShards
    /\ NoUtilExcept("shards")

InitParse ==
    /\ NoWfl
    /\ NoFormat
    /\ InitCreate
    /\ InitStep
    /\ NoUtilExcept("step")

InitEmbed ==
    /\ NoWfl
    /\ NoFormat
    /\ InitCreate
    /\ InitIds
    /\ NoUtilExcept("embed")

InitMerge ==
    /\ NoWfl
    /\ NoFormat
    /\ InitCreate
    /\ InitQms
    /\ NoUtilExcept("qms")

InitLinking ==
    /\ NoWfl
    /\ NoFormat
    /\ InitCreate
    /\ InitLinks
    /\ NoUtilExcept("links")

InitSorting ==
    /\ NoWfl
    /\ NoFormat
    /\ InitCreate
    /\ InitFamily
    /\ NoUtilExcept("family")

InitCache ==
    /\ NoWfl
    /\ NoFormat
    /\ InitCreate
    /\ InitFFWfrUtils
    /\ NoUtilExcept("wfr")

NextEnumeration ==
    /\ EnumerateShards
    /\ UNCHANGED <<wflvars, runvars, fmtvars, crvars>>
    /\ UtilUnchangedExcept("shards")

NextEmbed ==
    \/ MakeEmbedRequest /\ UNCHANGED <<wflvars, runvars, fmtvars, crvars>>
           /\ UtilUnchangedExcept("embed")
    \/ EmbedRequest /\ UNCHANGED <<wflvars, runvars, fmtvars, crvars>>
           /\ UtilUnchangedExcept("embed")
    \/ EmbedReturn /\ UNCHANGED <<wflvars, runvars, fmtvars, crvars>>
           /\ UtilUnchangedExcept("embed")

NextMerge ==
    \/ MergeStart /\ UNCHANGED <<wflvars, runvars, fmtvars, crvars>>
           /\ UtilUnchangedExcept("qms")
    \/ MergeCollect /\ UNCHANGED <<wflvars, runvars, fmtvars, crvars>>
           /\ UtilUnchangedExcept("qms")
    \/ MergePatchItem /\ UNCHANGED <<wflvars, runvars, fmtvars, crvars>>
           /\ UtilUnchangedExcept("qms")
    \/ MergePatchFile /\ UNCHANGED <<wflvars, runvars, fmtvars, crvars>>
           /\ UtilUnchangedExcept("qms")

NextLinking ==
    \/ \E c \in Creators : Init_(c) /\ UNCHANGED <<wflvars, runvars, fmtvars, crvars>>
           /\ UtilUnchangedExcept("links")
    \/ \E c \in Creators : post_meta_workflow_run(c) /\ UNCHANGED <<wflvars, runvars, fmtvars, crvars>>
           /\ UtilUnchangedExcept("links")
    \/ \E c \in Creators : patch_sample_processing(c) /\ UNCHANGED <<wflvars, runvars, fmtvars, crvars>>
           /\ UtilUnchangedExcept("links")

NextSorting ==
    /\ InitProperties
    /\ UNCHANGED <<wflvars, runvars, fmtvars, crvars>>
    /\ UtilUnchangedExcept("family")

NextCache ==
    \/ \E job_id \in JobIds : wfr_metadata(job_id) /\ UNCHANGED <<wflvars, runvars, fmtvars, crvars>>
           /\ UtilUnchangedExcept("wfr")
    \/ \E job_id \in JobIds : wfr_run_status(job_id) /\ UNCHANGED <<wflvars, runvars, fmtvars, crvars>>
           /\ UtilUnchangedExcept("wfr")
    \/ \E job_id \in JobIds : wfr_run_uuid(job_id) /\ UNCHANGED <<wflvars, runvars, fmtvars, crvars>>
           /\ UtilUnchangedExcept("wfr")
    \/ \E job_id \in JobIds : wfr_output(job_id) /\ UNCHANGED <<wflvars, runvars, fmtvars, crvars>>
           /\ UtilUnchangedExcept("wfr")
    \/ PortalChange /\ UNCHANGED <<wflvars, runvars, fmtvars, crvars>>
           /\ UtilUnchangedExcept("wfr")

NextParse ==
    /\ ParseStep
    /\ UNCHANGED <<wflvars, runvars, fmtvars, crvars>>
    /\ UtilUnchangedExcept("step")

NextOrder ==
    \/ CallOrder /\ UNCHANGED <<runvars, fmtvars, crvars, utilvars>>
    \/ BuildStart /\ UNCHANGED <<runvars, fmtvars, crvars, utilvars>>
    \/ BuildStep /\ UNCHANGED <<runvars, fmtvars, crvars, utilvars>>
    \/ BuildReturn /\ UNCHANGED <<runvars, fmtvars, crvars, utilvars>>
    \/ OrderStep /\ UNCHANGED <<runvars, fmtvars, crvars, utilvars>>
    \/ OrderReturn /\ UNCHANGED <<runvars, fmtvars, crvars, utilvars>>

\* several calls of _order_wfl_run on one Wfl object
NextRepeated ==
    \/ NextOrder
    \/ CallOrderLater /\ UNCHANGED <<runvars, fmtvars, crvars, utilvars>>

NextWrite ==
    \/ CallWrite /\ UNCHANGED <<runvars, fmtvars, crvars, utilvars>>
    \/ BuildStart /\ UNCHANGED <<runvars, fmtvars, crvars, utilvars>>
    \/ BuildStep /\ UNCHANGED <<runvars, fmtvars, crvars, utilvars>>
    \/ BuildReturn /\ UNCHANGED <<runvars, fmtvars, crvars, utilvars>>
    \/ OrderStep /\ UNCHANGED <<runvars, fmtvars, crvars, utilvars>>
    \/ OrderReturn /\ UNCHANGED <<runvars, fmtvars, crvars, utilvars>>
    \/ WriteStep /\ UNCHANGED <<runvars, fmtvars, crvars, utilvars>>
    \/ WriteReturn /\ UNCHANGED <<runvars, fmtvars, crvars, utilvars>>

\* passes one after the other, the engine acknowledging at any time
NextSequential ==
    \/ \E p \in Passes : Fetch(p, TRUE) /\ UNCHANGED <<wflvars, fmtvars, crvars, utilvars>>
    \/ \E p \in Passes : RunWorkflow(p) /\ UNCHANGED <<wflvars, fmtvars, crvars, utilvars>>
    \/ \E p \in Passes : Patch(p) /\ UNCHANGED <<wflvars, fmtvars, crvars, utilvars>>
    \/ \E p \in Passes : LoopEnd(p) /\ UNCHANGED <<wflvars, fmtvars, crvars, utilvars>>
    \/ Acknowledge /\ UNCHANGED <<wflvars, fmtvars, crvars, utilvars>>

\* passes started at any time
NextConcurrent ==
    \/ \E p \in Passes : Fetch(p, FALSE) /\ UNCHANGED <<wflvars, fmtvars, crvars, utilvars>>
    \/ \E p \in Passes : RunWorkflow(p) /\ UNCHANGED <<wflvars, fmtvars, crvars, utilvars>>
    \/ \E p \in Passes : Patch(p) /\ UNCHANGED <<wflvars, fmtvars, crvars, utilvars>>
    \/ \E p \in Passes : LoopEnd(p) /\ UNCHANGED <<wflvars, fmtvars, crvars, utilvars>>
    \/ Acknowledge /\ UNCHANGED <<wflvars, fmtvars, crvars, utilvars>>

\* passes one after the other on a Run a caller may stop
NextStopped ==
    \/ \E p \in Passes : Fetch(p, TRUE) /\ UNCHANGED <<wflvars, fmtvars, crvars, utilvars>>
    \/ \E p \in Passes : RunWorkflow(p) /\ UNCHANGED <<wflvars, fmtvars, crvars, utilvars>>
    \/ \E p \in Passes : Patch(p) /\ UNCHANGED <<wflvars, fmtvars, crvars, utilvars>>
    \/ \E p \in Passes : LoopEnd(p) /\ UNCHANGED <<wflvars, fmtvars, crvars, utilvars>>
    \/ Acknowledge /\ UNCHANGED <<wflvars, fmtvars, crvars, utilvars>>
    \/ Stop /\ UNCHANGED <<wflvars, fmtvars, crvars, utilvars>>

vars == <<wflvars, runvars, fmtvars, crvars, utilvars>>

SpecOrder == InitOrder /\ [][NextOrder]_vars

SpecRepeated == InitOrder /\ [][NextRepeated]_vars

SpecSequential == InitPasses /\ [][NextSequential]_vars

SpecConcurrent == InitPasses /\ [][NextConcurrent]_vars

SpecStopped == InitPasses /\ [][NextStopped]_vars

SpecFormat == InitFormatting /\ [][NextFormat]_vars

SpecCreate == InitCreation /\ [][NextCreate]_vars

SpecEnumeration == InitEnumeration /\ [][NextEnumeration]_vars

SpecParse == InitParse /\ [][NextParse]_vars

SpecCache == InitCache /\ [][NextCache]_vars

SpecSorting == InitSorting /\ [][NextSorting]_vars

SpecLinking == InitLinking /\ [][NextLinking]_vars

SpecMerge == InitMerge /\ [][NextMerge]_vars

SpecEmbed == InitEmbed /\ [][NextEmbed]_vars

\* a call that has started goes on: the loops of _build_wfl_run and _order_wfl_run
\* are not interrupted
RunOrder ==
    /\ BuildStart \/ BuildStep \/ BuildReturn \/ OrderStep \/ OrderReturn
    /\ UNCHANGED <<runvars, fmtvars, crvars, utilvars>>

FairOrder == SpecOrder /\ WF_vars(RunOrder)

SpecWrite == InitWrite /\ [][NextWrite]_vars

SpecCycle == InitCycle /\ [][NextOrder]_vars

FairCycle == SpecCycle /\ WF_vars(RunOrder)

(***************************************************************************)
(* Properties of the compiler.                                             *)
(***************************************************************************)
Dependencies == [n \in Names |-> steps[n].dependencies]

\* the steps reachable backward from the end_steps of the call
Reachable == Reach(Dependencies, Range(end_steps))

\* s holds each step of R exactly once and each step after its dependencies
TopologicalOrderOf(s, R) ==
    /\ Range(s) = R
    /\ Len(s) = Cardinality(R)
    /\ \A i \in 1 .. Len(s) :
           \A d \in steps[s[i]].dependencies : \E j \in 1 .. (i - 1) : s[j] = d

\* C1: on a freshly parsed Wfl whose reachable dependencies are all defined, the
\* first call of _order_wfl_run terminates, and what it returns holds each step
\* reachable backward from end_steps exactly once, no other step, and every step
\* after all of its dependencies.
C1_OrderTotal ==
    /\ [](calls = 1 /\ pc = "build" /\ Reachable \subseteq Names => <>(pc = "done"))
    /\ [](calls = 1 /\ pc = "done" => TopologicalOrderOf(osteps, Reachable))

C1_Witness ==
    /\ pc = "done"
    /\ calls = 1
    /\ Len(osteps) = NSteps
    /\ steps[NSteps].dependencies = 1 .. (NSteps - 1)
    /\ Len(end_steps) = MaxEnd

\* the coordinates of the values at depth d of the nested value v, in order
RECURSIVE CoordsAt(_, _)
CoordsAt(v, d) ==
    IF d = 1 THEN [i \in 1 .. Len(v.items) |-> <<i - 1>>]
    ELSE Flatten([i \in 1 .. Len(v.items) |->
             LET sub == CoordsAt(v.items[i], d - 1)
             IN  [k \in 1 .. Len(sub) |-> <<i - 1>> \o sub[k]]])

\* the shards (name, coordinate) present in the run
RunShards == {<<workflow_runs[k].name, workflow_runs[k].shard>> :
                 k \in 1 .. Len(workflow_runs)}

\* the coordinates of the dependencies of record r on the step pred, in order
DependenciesOn(r, pred) ==
    LET on == SelectSeq(r.dependencies, LAMBDA d : d[1] = pred)
    IN  [k \in 1 .. Len(on) |-> on[k][2]]

\* the coordinate s truncated to the scatter dimension p of a predecessor
Truncated(s, p) == IF p = 0 THEN <<0>> ELSE Prefix(s, p)

\* C2: in the run write_wfl_run returns, every dependency of every shard names a
\* shard of the run, and the dependency on a predecessor that is not gathered is the
\* predecessor's shard at the coordinate truncated to the predecessor's scatter
\* dimension.
C2_DependenciesPresent ==
    pc = "done" /\ op = "write" =>
        \A k \in 1 .. Len(workflow_runs) :
            LET r == workflow_runs[k]
            IN  /\ \A i \in 1 .. Len(r.dependencies) : r.dependencies[i] \in RunShards
                /\ \A pred \in steps[r.name].dependencies :
                       steps[r.name].gather_from[pred] = 0 =>
                           DependenciesOn(r, pred) = <<Truncated(r.shard, sdim[pred])>>

\* C3: the dependencies of a shard on a scattered predecessor it gathers from are all
\* of the predecessor's shards when dS = 0 or dS > p - k, and otherwise the
\* predecessor's shards whose prefix of length dS is the shard's coordinate, in
\* enumeration order; a predecessor that is not gathered gives exactly one dependency.
C3_GatherDependencies ==
    \A i \in 1 .. Len(workflow_runs) :
        LET r == workflow_runs[i]
            S == steps[r.name]
            dS == sdim[r.name]
        IN  \A pred \in S.dependencies :
                IF S.gather_from[pred] = 0
                THEN Len(DependenciesOn(r, pred)) = 1
                ELSE scatter[pred] > 0 =>
                         LET p == scatter[pred]
                             g == p - S.gather_from[pred]
                             all == CoordsAt(input, p)
                         IN  DependenciesOn(r, pred) =
                                 IF dS = 0 \/ dS > g THEN all
                                 ELSE SelectSeq(all, LAMBDA c : Prefix(c, dS) = r.shard)

\* a partial gather that keeps some and not all of the predecessor's shards, in a
\* run that also holds a full gather
C3_Witness ==
    /\ pc = "done"
    /\ op = "write"
    /\ \E i \in 1 .. Len(workflow_runs) :
           LET r == workflow_runs[i]
               S == steps[r.name]
           IN  \E pred \in S.dependencies :
                   /\ S.gather_from[pred] # 0
                   /\ sdim[r.name] # 0
                   /\ sdim[r.name] <= scatter[pred] - S.gather_from[pred]
                   /\ Len(DependenciesOn(r, pred)) < Len(CoordsAt(input, scatter[pred]))
    /\ \E i \in 1 .. Len(workflow_runs) :
           LET r == workflow_runs[i]
               S == steps[r.name]
           IN  \E pred \in S.dependencies :
                   /\ S.gather_from[pred] # 0
                   /\ sdim[r.name] = 0
                   /\ Len(DependenciesOn(r, pred)) > 1

\* the scattered predecessors of step n that n does not gather from
Ungathered(n) ==
    {pred \in steps[n].dependencies : scatter[pred] > 0 /\ steps[n].gather_from[pred] = 0}

\* the steps write_wfl_run has written
Written == {osteps[i] : i \in 1 .. widx}

\* C4 as stated: a step without is_scatter has the scatter dimension of every
\* scattered predecessor it does not gather from.
C4_InheritsEvery ==
    \A n \in Written :
        steps[n].is_scatter = 0 =>
            \A pred \in Ungathered(n) : sdim[n] = scatter[pred]

\* C4 amended: a step without is_scatter that has scattered predecessors it does not
\* gather from has the scatter dimension of one of them.
C4_InheritsOne ==
    \A n \in Written :
        steps[n].is_scatter = 0 /\ Ungathered(n) # {} =>
            \E pred \in Ungathered(n) : sdim[n] = scatter[pred]

\* a run with a step that has two such predecessors of different scatter dimensions
C4_Witness ==
    /\ pc = "done"
    /\ op = "write"
    /\ \E n \in Written :
           /\ steps[n].is_scatter = 0
           /\ \E a \in Ungathered(n) : \E b \in Ungathered(n) : scatter[a] # scatter[b]

\* the scattered predecessors of step n
ScatteredPreds(n) == {pred \in steps[n].dependencies : scatter[pred] > 0}

\* the steps whose scatter_dimension write_wfl_run has computed
Computed == Written \cup
    (IF pc = "error" /\ op = "write" /\ widx < Len(osteps) THEN {osteps[widx + 1]} ELSE {})

\* C5: a step without is_scatter whose scattered predecessors are all gathered has
\* the largest scatter(pred) - gather_from[pred] as its scatter dimension, and that
\* dimension is never negative.
C5_GatherDimension ==
    \A n \in Computed :
        steps[n].is_scatter = 0 /\ ScatteredPreds(n) # {} /\ Ungathered(n) = {} =>
            /\ \E pred \in ScatteredPreds(n) :
                   sdim[n] = scatter[pred] - steps[n].gather_from[pred]
            /\ \A pred \in ScatteredPreds(n) :
                   sdim[n] >= scatter[pred] - steps[n].gather_from[pred]
            /\ sdim[n] >= 0

(***************************************************************************)
(* Properties of run_metawfr.                                              *)
(***************************************************************************)
\* the shards pass p has handed to the backend, in order
SubmittedBy(p, jobs) ==
    LET mine == SelectSeq(jobs, LAMBDA j : j.pass = p)
    IN  [k \in 1 .. Len(mine) |-> mine[k].shard]

\* C6: over passes made one after the other, a shard is handed to the backend only
\* when its status in the Run document is pending and every shard its dependencies
\* list names is completed.
C6_SubmitsReady ==
    [][Len(backend') > Len(backend) =>
          LET s == backend'[Len(backend')].shard
          IN  /\ store.workflow_runs[s] = "pending"
              /\ \A d \in run_deps[s] : store.workflow_runs[d] = "completed"]_vars

\* a shard with two parents has been handed to the backend
C6_Witness ==
    \E i \in 1 .. Len(backend) : Cardinality(run_deps[backend[i].shard]) >= 2

\* C8: two passes that run to their end on the same Run, however interleaved, hand no
\* shard to the backend twice, and no shard a PATCH has marked running is pending
\* again in the document.
C8_Serialized ==
    (\A p \in Passes : ppc[p] # "aborted") =>
        /\ \A i \in 1 .. Len(backend) : \A j \in 1 .. Len(backend) :
               backend[i].shard = backend[j].shard => backend[i].pass = backend[j].pass
        /\ \A i \in 1 .. Len(patches) : store.workflow_runs[patches[i].shard] # "pending"

C10_MarkedFailed ==
    \A p \in Passes :
        failed_at[p] # 0 =>
            /\ store.workflow_runs[failed_at[p]] = "failed"
            /\ ppc[p] # "aborted"

\* C10 amended: a failed hand-over ends the pass there: the step that fails changes
\* neither the document nor the backend, and the pass submits and PATCHes nothing
\* afterwards.
C10_Aborts ==
    [][\A p \in Passes :
          /\ failed_at[p] = 0 /\ failed_at'[p] # 0 =>
                 /\ store' = store
                 /\ store.workflow_runs[failed_at'[p]] = "pending"
                 /\ backend' = backend
                 /\ ppc'[p] = "aborted"
          /\ failed_at[p] # 0 =>
                 /\ ppc'[p] = "aborted"
                 /\ SubmittedBy(p, backend') = SubmittedBy(p, backend)
                 /\ SubmittedBy(p, patches') = SubmittedBy(p, patches)]_vars

\* a hand-over failed while the generator had another ready shard left
C10_Witness ==
    \E p \in Passes :
        /\ failed_at[p] # 0
        /\ in_gen[p] # <<>>
        /\ store.workflow_runs[failed_at[p]] = "pending"

\* C11: a pass that fetches a Run whose final_status is stopped hands no shard to the
\* backend and PATCHes nothing, whatever its valid_status argument (given or not).
C11_StoppedRefuses ==
    \A p \in Passes :
        ppc[p] # "idle" /\ meta_workflow_run[p].final_status = "stopped" =>
            /\ SubmittedBy(p, backend) = <<>>
            /\ SubmittedBy(p, patches) = <<>>

\* C12: when the SampleProcessing or the MetaWorkflow is not found, or creating the
\* input or the shards raises, the construction has failed with an error and nothing
\* has been POSTed or PATCHed.
C12_NothingPersisted ==
    (/\ cpc # "idle"
     /\ \/ ~sample_processing.found
        \/ ~meta_workflow.found
        \/ meta_workflow_run_input.raised # ""
        \/ cerr \in {"no input files", "write_run"}) =>
        /\ cpc = "failed"
        /\ cerr # ""
        /\ posted = <<>>
        /\ patched = <<>>

\* a construction failed on a sample with two files for an input of dimension 1
C12_Witness ==
    /\ cpc = "failed"
    /\ cerr = "multiple input files"
    /\ meta_workflow_run_input.raised = "multiple input files"

\* C13: the PATCH of the SampleProcessing follows a POST that succeeded, of a document
\* with final_status pending and a uuid the SampleProcessing did not link; a POST
\* that fails raises a creation error and nothing is PATCHed.
C13_PostThenPatch ==
    /\ patched # <<>> => posted # <<>>
    /\ cpc \in {"patched", "patch failed"} => Len(posted) = 1
    /\ \A i \in 1 .. Len(posted) :
           /\ posted[i].final_status = "pending"
           /\ posted[i].uuid \notin Range(sample_processing.meta_workflow_runs)
    /\ \A i \in 1 .. Len(patched) :
           patched[i] = Append(sample_processing.meta_workflow_runs, posted[1].uuid)
    /\ cpc = "post failed" =>
           /\ cerr = "MetaWorkflowRun not POSTed"
           /\ posted = <<>>
           /\ patched = <<>>

\* the SampleProcessing, linked to a MetaWorkflowRun already, was PATCHed after the POST
C13_Witness ==
    /\ cpc = "patched"
    /\ Len(patched) = 1
    /\ Len(patched[1]) = 2

\* the entries format_file_input_value emits for an input of dimension 1 whose
\* samples have one file each: one per sample index, in ascending order
OnePerSample(file_value_) ==
    [k \in 1 .. Cardinality(DOMAIN file_value_) |->
        LET sample_idx == Sorted(DOMAIN file_value_)[k]
        IN  [file |-> file_value_[sample_idx][1], dimension |-> <<sample_idx>>]]

\* C14: for an input of dimension 1, format_file_input_value returns only when every
\* sample index has exactly one file, and then one entry per sample index in
\* ascending order; a sample with two files or more makes it raise.
C14_ExactlyOne ==
    formatted.called /\ input_arg_dimensions = 1 =>
        /\ formatted.raised = "" <=>
               \A i \in DOMAIN file_value : Len(file_value[i]) = 1
        /\ formatted.raised = "" => formatted.value = OnePerSample(file_value)
        /\ (\E i \in DOMAIN file_value : Len(file_value[i]) >= 2) =>
               formatted.raised # "" /\ formatted.value = <<>>

\* C15: for an input whose dimensionality is neither 1 nor 2 (3, 0 and none
\* included), format_file_input_value raises for every file value, the one without
\* sample indices included.
C15_UnsupportedRaises ==
    formatted.called /\ input_arg_dimensions \notin {1, 2} => formatted.raised # ""

\* C16: create_input raises, returning no input, whenever a declaration has a type
\* other than file and parameter, or is looked up under a name the adapter lacks.
C16_InputRejected ==
    (/\ meta_workflow_run_input.called
     /\ \E i \in 1 .. Len(meta_workflow.input) :
            LET input_arg == meta_workflow.input[i]
            IN  \/ input_arg.argument_type \notin {"file", "parameter"}
                \/ /\ input_arg.literal = ""
                   /\ lower[input_arg.argument_name] \notin DOMAIN input_properties) =>
        /\ meta_workflow_run_input.raised # ""
        /\ meta_workflow_run_input.value = <<>>

\* C17: the input create_input returns contains every declaration that carries a
\* literal default, as declared.
C17_DefaultsCopied ==
    meta_workflow_run_input.called /\ meta_workflow_run_input.raised = "" =>
        \A i \in 1 .. Len(meta_workflow.input) :
            meta_workflow.input[i].literal # "" =>
                \E k \in 1 .. Len(meta_workflow_run_input.value) :
                    /\ meta_workflow_run_input.value[k].argument_name =
                           meta_workflow.input[i].argument_name
                    /\ DOMAIN meta_workflow_run_input.value[k] =
                           DOMAIN meta_workflow.input[i]

\* C18: write_wfl_run called on an input nested more than three levels deep ends in
\* an error raised by the shape analysis, and no shape is computed.
C18_DeepInputRejected ==
    op = "write" /\ input \in Inputs4 => pc = "error" /\ err # ""

\* a step reachable backward from end_steps depends on itself, directly or
\* transitively
Cyclic ==
    \E n \in Reachable \cap Names :
        n \in Reach(Dependencies, steps[n].dependencies)

\* C19: on a meta-workflow whose steps reachable backward from end_steps hold a
\* dependency cycle, the call of _order_wfl_run ends in an error, and it never
\* returns an order.
C19_CycleRejected ==
    /\ [](calls = 1 /\ pc = "build" /\ Cyclic => <>(pc = "error"))
    /\ [](Cyclic => pc # "done")

\* C20: in the order _order_wfl_run returns, of two steps neither of which depends
\* on the other, directly or transitively, the one declared first comes first.
C20_DeclarationOrder ==
    calls = 1 /\ pc = "done" =>
        \A i \in 1 .. Len(osteps) : \A j \in (i + 1) .. Len(osteps) :
            osteps[i] \notin Reach(Dependencies, steps[osteps[j]].dependencies) =>
                osteps[i] < osteps[j]

\* the number of levels of the nested value v
RECURSIVE Depth(_)
Depth(v) == IF ~v.list THEN 0 ELSE 1 + Depth(v.items[1])

\* the tuple a comes before the tuple b of the same length, index by index
LexLess(a, b) ==
    \E k \in 1 .. Len(a) :
        /\ a[k] < b[k]
        /\ \A m \in 1 .. (k - 1) : a[m] = b[m]

StepCoordinates(d) == IF d = 0 THEN <<<<0>>>> ELSE CoordsAt(input, d)

\* C23: the run write_wfl_run returns holds, for each step of the order, in that
\* order, one record per coordinate at the step's scatter dimension (one record of
\* coordinate 0 when the dimension is 0), in enumeration order, each with status
\* pending, empty output and empty workflow_run_uuid.
C23_ShardRecords ==
    pc = "done" /\ op = "write" =>
        [k \in 1 .. Len(workflow_runs) |->
            [name |-> workflow_runs[k].name, shard |-> workflow_runs[k].shard,
             status |-> workflow_runs[k].status, output |-> workflow_runs[k].output,
             workflow_run_uuid |-> workflow_runs[k].workflow_run_uuid]]
        = Flatten([i \in 1 .. Len(osteps) |->
              [k \in 1 .. Len(StepCoordinates(sdim[osteps[i]])) |->
                  [name |-> osteps[i], shard |-> StepCoordinates(sdim[osteps[i]])[k],
                   status |-> "pending", output |-> "", workflow_run_uuid |-> ""]]])

\* a run of three steps: one not scattered, one scattered over two coordinates or more
C23_Witness ==
    /\ pc = "done"
    /\ op = "write"
    /\ Len(osteps) = NSteps
    /\ \E n \in Names : sdim[n] = 0
    /\ \E n \in Names : sdim[n] = 2 /\ Len(CoordsAt(input, 2)) >= 2

\* the ready shards the input generator of pass p produces, in its order
Produced(p) == ToRun(meta_workflow_run[p].workflow_runs)

\* C26: a pass with maxcount = n >= 1 hands at most n shards to the backend, the first
\* n ready shards in the order of the generator, each followed by its PATCH before the
\* next; a pass without maxcount that ends normally has handed over every ready shard.
C26_MaxCount ==
    \A p \in Passes :
        LET subs == SubmittedBy(p, backend)
            pats == SubmittedBy(p, patches)
        IN  /\ maxcount[p] >= 1 => Len(subs) <= maxcount[p]
            /\ Len(subs) <= Len(Produced(p))
            /\ subs = SubSeq(Produced(p), 1, Len(subs))
            /\ Len(subs) <= Len(pats) + 1
            /\ pats = SubSeq(subs, 1, Len(pats))
            /\ ppc[p] = "done" =>
                   Len(subs) = IF maxcount[p] = 0 \/ maxcount[p] > Len(Produced(p))
                               THEN Len(Produced(p)) ELSE maxcount[p]

\* a pass with maxcount 2 ended after two of three ready shards
C26_Witness ==
    \E p \in Passes :
        /\ ppc[p] = "done"
        /\ maxcount[p] = 2
        /\ Len(Produced(p)) = 3
        /\ SubmittedBy(p, backend) = <<1, 2>>

\* the arguments of the step that name the source step s and have a gather
Gathering(s) ==
    SelectSeq(step_arguments, LAMBDA arg : arg.source_step = s /\ arg.gather # 0)

\* C25: after a step is parsed, is_scatter is the scatter of the first argument that
\* has one (0 when none has), dependencies is the set of the source_step values,
\* gather_from maps every source step with a gathering argument to the gather of the
\* first such argument, and every key of gather_from is in dependencies.
C25_StepAttributes ==
    step_attributes.called =>
        LET self == step_attributes.value
            scattering == SelectSeq(step_arguments, LAMBDA arg : arg.scatter # 0)
        IN  /\ self.is_scatter = IF scattering = <<>> THEN 0 ELSE scattering[1].scatter
            /\ self.dependencies =
                   {step_arguments[i].source_step : i \in 1 .. Len(step_arguments)} \ {0}
            /\ \A s \in Names :
                   self.gather_from[s] =
                       IF Gathering(s) = <<>> THEN 0 ELSE Gathering(s)[1].gather
            /\ {s \in Names : self.gather_from[s] # 0} \subseteq self.dependencies

\* a parsed step with two different scatters, two different gathers from one source
\* step, and a dependency it does not gather from
C25_Witness ==
    /\ step_attributes.called
    /\ \E i, j \in 1 .. Len(step_arguments) :
           /\ i < j
           /\ step_arguments[i].scatter # 0
           /\ step_arguments[j].scatter # 0
           /\ step_arguments[i].scatter # step_arguments[j].scatter
    /\ \E s \in Names :
           /\ Len(Gathering(s)) = 2
           /\ Gathering(s)[1].gather # Gathering(s)[2].gather
    /\ \E s \in step_attributes.value.dependencies :
           step_attributes.value.gather_from[s] = 0

\* C27: whatever calls were made before on the Wfl object, the order _order_wfl_run
\* returns holds only steps reachable backward from the end_steps of this call.
C27_OnlyReachable ==
    pc = "done" /\ op = "order" =>
        Range(osteps) \subseteq Reach(Dependencies, Range(end_steps))

\* C21: the chunks of chunk_ids are consecutive pieces of the list whose concatenation
\* is the list, each of 1 to 5 identifiers and all but the last of exactly 5;
\* make_embed_request sends one request per chunk, none with more than 5 identifiers,
\* and returns the concatenation of the responses.
C21_Chunks ==
    embed_pc # "idle" =>
        /\ Flatten(id_chunks) = ids
        /\ \A k \in 1 .. Len(id_chunks) :
               /\ Len(id_chunks[k]) \in 1 .. 5
               /\ k < Len(id_chunks) => Len(id_chunks[k]) = 5
        /\ embed_requests = SubSeq(id_chunks, 1, Len(embed_requests))
        /\ \A k \in 1 .. Len(embed_requests) : Len(embed_requests[k]) <= 5
        /\ embed_pc = "done" =>
               /\ embed_requests = id_chunks
               /\ ~single_item =>
                      embed_result = Return([i \in 1 .. Len(ids) |-> EmbeddedItem(ids[i])])

\* a request for eleven identifiers returned after three requests, the last with one
C21_Witness ==
    /\ embed_pc = "done"
    /\ ~single_item
    /\ Len(ids) = 11
    /\ Len(embed_requests) = 3
    /\ Len(embed_requests[3]) = 1
    /\ Len(embed_result.value) = 11

\* the quality-metric items the file references once the PATCHes are applied
FileQualityMetrics ==
    LET on == SelectSeq(merge_patches, LAMBDA p : p.field = "quality_metrics")
    IN  IF on = <<>> THEN [i \in 1 .. Len(qm_items) |-> QmUuid(i)]
        ELSE on[Len(on)].body

\* the qc_values of the i-th item once the PATCHes are applied
QcValuesOf(i) ==
    LET on == SelectSeq(merge_patches,
                        LAMBDA p : p.field = "qc_values" /\ p.obj_id = QmUuid(i))
    IN  IF on = <<>> THEN qm_items[i] ELSE on[Len(on)].body

\* the items, as they were, that have a value derived from key
Having(key) ==
    {i \in 1 .. Len(qm_items) :
        \E k \in 1 .. Len(qm_items[i]) : qm_items[i][k].derived_from = key}

\* the value the newest item that has the key holds for it
NewestValue(key) ==
    LET i == CHOOSE n \in Having(key) : \A m \in Having(key) : m <= n
        at == {k \in 1 .. Len(qm_items[i]) : qm_items[i][k].derived_from = key}
    IN  qm_items[i][CHOOSE k \in at : \A l \in at : l <= k]

\* C22: after merge_qc_items on a file with two items or more, the file references
\* one item, the oldest in mode keep_oldest and the newest otherwise, and that item
\* holds for every derived_from key of any item exactly the value of the newest item
\* that has the key; with fewer than two items nothing is PATCHed.
C22_Merged ==
    merge_pc = "done" =>
        IF Len(qm_items) < 2
        THEN merge_patches = <<>>
        ELSE LET keep == IF mode = "keep_oldest" THEN 1 ELSE Len(qm_items)
                 kept == QcValuesOf(keep)
             IN  /\ FileQualityMetrics = <<QmUuid(keep)>>
                 /\ \A key \in 1 .. MaxQcKeys :
                        LET at == {k \in 1 .. Len(kept) : kept[k].derived_from = key}
                        IN  IF Having(key) = {} THEN at = {}
                            ELSE /\ Cardinality(at) = 1
                                 /\ \A k \in at : kept[k] = NewestValue(key)

\* a merge of three items where an older and a newer item disagree on a key and
\* only an older item has the other key
C22_Witness ==
    /\ merge_pc = "done"
    /\ Len(qm_items) = 3
    /\ \E key \in 1 .. MaxQcKeys :
           /\ Cardinality(Having(key)) >= 2
           /\ \E i \in Having(key) : \E k \in 1 .. Len(qm_items[i]) :
                  /\ qm_items[i][k].derived_from = key
                  /\ qm_items[i][k] # NewestValue(key)
    /\ \E key \in 1 .. MaxQcKeys : Having(key) # {} /\ 3 \notin Having(key)

\* C28: once both objects made for one SampleProcessing have POSTed and PATCHed, in
\* any interleaving, the meta_workflow_runs of the SampleProcessing holds every run
\* linked before and the uuids of both new runs.
C28_BothLinked ==
    (\A c \in Creators : link_pc[c] = "patched") =>
        Range(linked_before) \cup {meta_workflow_run_uuid[c] : c \in Creators}
            \subseteq Range(sp_meta_workflow_runs)

\* the sequence a is a reordering of the sequence b
IsPermutation(a, b) ==
    /\ Len(a) = Len(b)
    /\ \E f \in Perms(1 .. Len(b)) : \A i \in 1 .. Len(a) : a[i] = b[f[i]]

\* the place of an entry in the order proband, mother, father, others
Place(relationship) ==
    IF relationship = "proband" THEN 1
    ELSE IF relationship = "mother" THEN 2
    ELSE IF relationship = "father" THEN 3
    ELSE 4

\* C29: with expect_family_structure the sorted samples and the sorted pedigree are
\* permutations of the samples and the pedigree, ordered proband, mother, father,
\* others, and the i-th sorted sample has the sample name of the i-th pedigree entry.
C29_Aligned ==
    sorted.called /\ sorted.raised = "" /\ expect_family_structure =>
        LET s == sorted.value.samples
            p == sorted.value.samples_pedigree
        IN  /\ IsPermutation(s, samples)
            /\ IsPermutation(p, samples_pedigree)
            /\ \A i \in 1 .. Len(p) : \A j \in (i + 1) .. Len(p) :
                   Place(p[i].relationship) <= Place(p[j].relationship)
            /\ Len(s) = Len(p)
            /\ \A i \in 1 .. Len(s) : s[i].bam_sample_id = p[i].sample_name

\* C30: a call for a job id whose document wfr_metadata returned before answers from
\* that document without a query, whatever the portal holds now; a job id that is not
\* found is not cached, wfr_run_status answers failed for it, and the next call for
\* it queries the portal again.
C30_Cache ==
    wfr_call.result.called =>
        /\ wfr_call.cached =>
               /\ wfr_call.queries = 0
               /\ wfr_call.result =
                      Return(Answer(wfr_call.method, _metadata[wfr_call.job_id]))
        /\ ~wfr_call.cached => wfr_call.queries = 1
        /\ ~wfr_call.cached /\ ~wfr_call.found /\
               wfr_call.result.raised # "FdnConnectionException" =>
               /\ _metadata[wfr_call.job_id] = NoDocument
               /\ wfr_call.method = "wfr_run_status" => wfr_call.result = Return("failed")

====
